---- MODULE Spec2Model ----
(***************************************************************************)
(* A model of UnifyPy's cache manager (src/src/utils/cache_manager.py):    *)
(* the configuration fingerprint, the metadata record, the cached          *)
(* generated files, the application id and the batch pre-generation.       *)
(*                                                                         *)
(* JSON values (the configuration, the hash factors, file contents) are    *)
(* tagged records [t, s, d]: t is the type tag, s the text of a scalar,    *)
(* d the entries of a mapping in insertion order (a Python dict keeps the  *)
(* order in which its keys were inserted).                                 *)
(***************************************************************************)
EXTENDS Integers, Sequences, FiniteSets, TLC

VARIABLES
    store,    \* project -> [meta_exists, metadata, cache]: the .unifypy directory
    disk,     \* the build configuration file at config_file_path
    fsys,     \* resource path -> [exists, readable, content]
    calls,    \* number of operations performed so far
    faults,   \* number of generator faults injected so far
    last,     \* the last operation: its name, arguments and result
    cfgA,     \* fingerprint session: the configuration whose hash was saved
    cfgB,     \* fingerprint session: the configuration being checked
    scope,    \* fingerprint session: the platform scope (or None)
    fsA,      \* fingerprint session: the filesystem when the hash was saved
    edits,    \* fingerprint session: number of edits applied so far
    pc,       \* fingerprint session: position
    hres,     \* fingerprint session: the recorded results
    persisted, \* history: project -> the ids ever stored in metadata.app_id
    first,    \* history: project -> the first get_or_generate_app_id call
    procs,    \* process -> its position in the call it runs and the call's locals
    events    \* history: the steps the running calls have taken, in order

vars == <<store, disk, fsys, calls, faults, last, cfgA, cfgB, scope, fsA, edits, pc, hres,
          persisted, first, procs, events>>

----------------------------------------------------------------------------
(* Bounds *)

MaxCalls == 2      \* operations in a behaviour of Spec
MaxIdCalls == 3    \* operations in a behaviour of SpecAppId
MaxFaults == 1     \* generator faults injected in a behaviour
MaxEdits == 2      \* edits of the configuration or of a resource file in a session
MaxContents == 2   \* distinct byte contents a resource file can have
MaxMetaCalls == 3  \* operations in a behaviour of SpecMeta
MaxFileCalls == 3  \* operations in a behaviour of SpecFiles
MaxDiskCalls == 2  \* operations in a behaviour of SpecDisk
MaxArgs == 2       \* command-line arguments given to a construction
MaxRuns == 2       \* batch runs taken step by step in a behaviour of SpecSteps
MaxSaves == 2      \* save_config_hash calls started in a behaviour of SpecProcs
MaxReads == 3      \* calls in a behaviour of SpecReads

----------------------------------------------------------------------------
(* JSON values *)

None == [t |-> "null", s |-> "", d |-> <<>>]
Absent == [t |-> "absent", s |-> "", d |-> <<>>]
Str(x) == [t |-> "str", s |-> x, d |-> <<>>]
Bool(b) == [t |-> "bool", s |-> IF b THEN "true" ELSE "false", d |-> <<>>]
Dict(es) == [t |-> "dict", s |-> "", d |-> es]
Entry(key, val) == [k |-> key, v |-> val]

\* the element of a singleton: Only({e(x) : x \in {d}}) is "LET x == d IN e(x)"
\* with d evaluated once
Only(S) == CHOOSE x \in S : TRUE
EmptyDict == Dict(<<>>)

\* Python truthiness of the values the code tests with "if x:" / "not x"
Truthy(v) ==
    CASE v.t = "str" -> v.s # ""
      [] v.t = "hex" -> TRUE
      [] v.t = "uuid5" -> TRUE
      [] v.t = "bool" -> v.s = "true"
      [] v.t = "dict" -> v.d # <<>>
      [] OTHER -> FALSE

Keys(dct) == {dct.d[i].k : i \in 1..Len(dct.d)}

\* "key in dict"
Has(dct, key) == key \in Keys(dct)

\* dict.get(key, default)
Get(dct, key, default) ==
    IF Has(dct, key)
    THEN dct.d[CHOOSE i \in 1..Len(dct.d) : dct.d[i].k = key].v
    ELSE default

\* dict[key] = val : an existing key keeps its position, a new key goes last
Put(dct, key, val) ==
    IF Has(dct, key)
    THEN Dict(<<>> \o [i \in 1..Len(dct.d) |->
                         IF dct.d[i].k = key THEN Entry(key, val) ELSE dct.d[i]])
    ELSE Dict(Append(dct.d, Entry(key, val)))

\* dict.pop(key, None)
Pop(dct, key) == Dict(SelectSeq(dct.d, LAMBDA e : e.k # key))

\* a dict literal; entries whose value is Absent are left out
Lit(es) == Dict(SelectSeq(es, LAMBDA e : e.v # Absent))

----------------------------------------------------------------------------
(* json.dumps(..., sort_keys=True) and the digests *)

\* every key that occurs in the model, in Python's string order
KeyOrder ==
    << "a.ico", "app_id", "appimage", "b.ico", "build_config", "clean",
       "config_hash", "created", "deb", "dist_dir", "icon", "info_plist",
       "inno_setup", "installer_dir", "last_updated", "license",
       "license_file", "linux", "macos", "max_workers", "name",
       "no_rollback", "parallel", "platform", "platform_config",
       "platform_hashes", "platforms", "project_dir", "quiet",
       "resource_files", "rpm", "setup_icon", "skip_exe", "skip_installer",
       "temp_dir", "unifypy_version", "verbose", "version", "windows" >>

KeyRank ==
    [key \in {KeyOrder[i] : i \in 1..Len(KeyOrder)} |->
        CHOOSE i \in 1..Len(KeyOrder) : KeyOrder[i] = key]

Rank(key) == KeyRank[key]

RECURSIVE SortEntries(_)
SortEntries(es) ==
    IF es = <<>> THEN <<>>
    ELSE LET m == CHOOSE i \in 1..Len(es) :
                    \A j \in 1..Len(es) : Rank(es[i].k) <= Rank(es[j].k)
         IN  <<es[m]>> \o SortEntries(SelectSeq(es, LAMBDA e : e.k # es[m].k))

\* the serialisation without sort_keys: entries stay in insertion order
RECURSIVE JsonDumpsUnsorted(_)
JsonDumpsUnsorted(v) ==
    IF v.t = "dict"
    THEN Dict(<<>> \o [i \in 1..Len(v.d) |->
                         Entry(v.d[i].k, JsonDumpsUnsorted(v.d[i].v))])
    ELSE v

\* the serialised text, represented by the value with the entries of every
\* mapping in sorted key order (the text determines this value and back)
RECURSIVE JsonDumps(_)
JsonDumps(v) ==
    IF v.t = "dict"
    THEN Dict(SortEntries(<<>> \o [i \in 1..Len(v.d) |->
                                     Entry(v.d[i].k, JsonDumps(v.d[i].v))]))
    ELSE v

\* hashlib.sha256(text).hexdigest(): the digest is taken to be injective, so
\* it is represented by the text it was computed from
Sha256(text) == [t |-> "hex", s |-> "sha256", d |-> text.d]

\* hashlib.md5 over the file's bytes, injective on the contents of the model
Md5(content) == [t |-> "hex", s |-> content, d |-> <<>>]

----------------------------------------------------------------------------
(* The configuration fingerprint *)

ExcludeKeys ==
    << "project_dir", "temp_dir", "dist_dir", "installer_dir", "verbose",
       "quiet", "clean", "skip_exe", "skip_installer", "parallel",
       "max_workers", "no_rollback" >>

\* the keys taken out, but for the verbosity flag
ExcludeKeySetKeepsVerbose == {ExcludeKeys[i] : i \in 1..Len(ExcludeKeys)} \ {"verbose"}

ExcludeKeySet == {ExcludeKeys[i] : i \in 1..Len(ExcludeKeys)}

\* the filter with one more key taken out
FilterDropsVersion(config) ==
    Dict(SelectSeq(config.d, LAMBDA e : e.k \notin ExcludeKeySet \cup {"version"}))

\* the copy of config without its top-level keys listed in exclude_keys
FilterConfigForHash(config) ==
    Dict(SelectSeq(config.d, LAMBDA e : e.k \notin ExcludeKeySet))

Paths == {"a.ico", "b.ico"}

\* os.path.exists(path)
PathExists(fs, path) == path.s \in Paths /\ fs[path.s].exists

\* the paths the code collects, in order, for the given scope
FormatIcons(platform_config) ==
    << Get(Get(platform_config, "deb", EmptyDict), "icon", None),
       Get(Get(platform_config, "rpm", EmptyDict), "icon", None),
       Get(Get(platform_config, "appimage", EmptyDict), "icon", None) >>

PlatformResources(config, platform) ==
    IF Truthy(platform) /\ Has(Get(config, "platforms", EmptyDict), platform.s)
    THEN LET platform_config == Get(Get(config, "platforms", EmptyDict), platform.s, EmptyDict)
         IN  CASE platform.s = "windows" ->
                    LET inno_setup == Get(platform_config, "inno_setup", EmptyDict)
                    IN  << Get(inno_setup, "setup_icon", None),
                           Get(inno_setup, "license_file", None) >>
               [] platform.s = "macos" ->
                    << Get(platform_config, "icon", None),
                       Get(platform_config, "info_plist", None) >>
               [] platform.s = "linux" -> FormatIcons(platform_config)
               [] OTHER -> <<>>
    ELSE <<>>

RECURSIVE HashResources(_, _, _)
HashResources(fs, paths, acc) ==
    IF paths = <<>> THEN acc
    ELSE LET p == Head(paths)
         IN  IF Truthy(p) /\ PathExists(fs, p) /\ fs[p.s].readable
             THEN HashResources(fs, Tail(paths), Put(acc, p.s, Md5(fs[p.s].content)))
             ELSE HashResources(fs, Tail(paths), acc)

\* the resource digests of the global fields only
GetResourceFilesGlobalOnly(config, platform, fs) ==
    HashResources(fs, << Get(config, "icon", None), Get(config, "license", None) >>,
                  EmptyDict)

GetResourceFiles(config, platform, fs) ==
    HashResources(fs,
                  << Get(config, "icon", None), Get(config, "license", None) >>
                      \o PlatformResources(config, platform),
                  EmptyDict)

\* hash_factors before the resource files are added
HashFactors(config, platform) ==
    << Entry("unifypy_version", Str("2.0.0")),
       Entry("build_config", FilterConfigForHash(config)) >>
    \o (IF Truthy(platform)
        THEN << Entry("platform_config",
                      Get(Get(config, "platforms", EmptyDict), platform.s, EmptyDict)),
                Entry("platform", platform) >>
        ELSE <<>>)

CalculateConfigHash(config, platform, fs) ==
    Only({ Sha256(JsonDumps(Dict(HashFactors(config, platform)
                                 \o (IF Truthy(resource_files)
                                     THEN << Entry("resource_files", resource_files) >>
                                     ELSE <<>>))))
           : resource_files \in {GetResourceFiles(config, platform, fs)} })

----------------------------------------------------------------------------
(* The project's .unifypy directory: metadata.json and cache/ *)

\* the generators visited in alphabetical order
PlatformNamesSorted == <<"linux", "macos", "windows">>

\* the keys of platform_generators, in insertion order
PlatformNames == <<"windows", "macos", "linux">>
Platforms == {"windows", "macos", "linux"}

\* filename_map of get_cached_file_path
FilenameMap ==
    [windows |-> [iss |-> "setup.iss"],
     linux   |-> [control |-> "control", spec |-> "app.spec", desktop |-> "app.desktop"],
     macos   |-> [plist |-> "Info.plist", dmg_config |-> "dmg_config.json",
                  pkg_config |-> "pkg_config.json"]]

FileTypes == {"iss", "control", "spec", "desktop", "plist", "dmg_config", "pkg_config"}

Supported(platform, file_type) ==
    platform \in DOMAIN FilenameMap /\ file_type \in DOMAIN FilenameMap[platform]

\* cache/<platform>/<filename>; only called on supported pairs here, the
\* ValueError of an unsupported pair is the guard Supported
GetCachedFilePath(platform, file_type) == <<platform, FilenameMap[platform][file_type]>>

CachePaths ==
    UNION {{GetCachedFilePath(p, t) : t \in DOMAIN FilenameMap[p]} : p \in Platforms}

\* a cached file: its text and, as a history field, the platform fingerprint
\* of the configuration its generator ran on (None: not written by a generator)
NoFile == [exists |-> FALSE, content |-> EmptyDict, gen |-> None]
File(content, gen) == [exists |-> TRUE, content |-> content, gen |-> gen]

NoHashes == [p \in {} |-> None]

\* the record load_metadata returns when there is no metadata file; the key
\* last_updated is absent from it.  Timestamps are abstracted to "now".
DefaultMetadata ==
    [version |-> Str("2.0.0"), created |-> None, app_id |-> None,
     config_hash |-> None, platform_hashes |-> NoHashes, last_updated |-> Absent]

\* the state right after CacheManager.__init__ on a fresh project directory;
\* meta_corrupt: metadata.json is there and json.load fails on it
EmptyProject ==
    [meta_exists |-> FALSE, meta_corrupt |-> FALSE, metadata |-> DefaultMetadata,
     cache |-> [f \in CachePaths |-> NoFile]]

Now == Str("now")

\* the exception of json.load is caught and the default record returned
LoadMetadata(pr) ==
    IF pr.meta_exists /\ ~pr.meta_corrupt THEN pr.metadata ELSE DefaultMetadata

\* the file is rewritten whole
SaveMetadata(pr, metadata) ==
    [pr EXCEPT !.meta_exists = TRUE, !.meta_corrupt = FALSE, !.metadata = metadata]

\* the read that takes what was last written for what the file holds
LoadCachedHashUnguarded(pr, platform) ==
    IF Truthy(platform)
    THEN IF platform.s \in DOMAIN pr.metadata.platform_hashes
         THEN pr.metadata.platform_hashes[platform.s]
         ELSE None
    ELSE pr.metadata.config_hash

\* the exception of json.load is caught and None returned
LoadCachedHash(pr, platform) ==
    IF pr.meta_exists /\ ~pr.meta_corrupt
    THEN IF Truthy(platform)
         THEN IF platform.s \in DOMAIN pr.metadata.platform_hashes
              THEN pr.metadata.platform_hashes[platform.s]
              ELSE None
         ELSE pr.metadata.config_hash
    ELSE None

\* the assignment that forgets the hashes of the other platforms
SetHashOnly(hashes, p, h) == [q \in {p} |-> h]

SetHash(hashes, p, h) ==
    [q \in (DOMAIN hashes) \cup {p} |-> IF q = p THEN h ELSE hashes[q]]

DelHash(hashes, p) == [q \in (DOMAIN hashes) \ {p} |-> hashes[q]]

SaveConfigHash(pr, config_hash, platform) ==
    LET metadata == LoadMetadata(pr)
        m1 == IF Truthy(platform)
              THEN [metadata EXCEPT !.platform_hashes = SetHash(@, platform.s, config_hash)]
              ELSE [metadata EXCEPT !.config_hash = config_hash]
    IN  SaveMetadata(pr, [m1 EXCEPT !.last_updated = Now])

\* the comparison inverted
ShouldRegenerateInverted(pr, config, platform, fs) ==
    CalculateConfigHash(config, platform, fs) = LoadCachedHash(pr, platform)

ShouldRegenerateConfig(pr, config, platform, fs) ==
    CalculateConfigHash(config, platform, fs) # LoadCachedHash(pr, platform)

SaveCachedFile(pr, platform, file_type, file) ==
    [pr EXCEPT !.cache[GetCachedFilePath(platform, file_type)] = file]

\* the text, or None when there is no such file or the pair is unsupported
LoadCachedFile(pr, platform, file_type) ==
    IF Supported(platform, file_type) /\ pr.cache[GetCachedFilePath(platform, file_type)].exists
    THEN pr.cache[GetCachedFilePath(platform, file_type)].content
    ELSE None

ClearedTypes == {"iss", "control", "spec", "plist"}

\* clear_cache that starts the metadata record over
ClearCacheResetsMetadata(pr, platform) ==
    [pr EXCEPT !.cache = [f \in CachePaths |-> NoFile],
               !.meta_exists = TRUE,
               !.meta_corrupt = FALSE,
               !.metadata = DefaultMetadata]

ClearCache(pr, platform) ==
    IF Truthy(platform)
    THEN LET metadata == LoadMetadata(pr)
             p1 == IF platform.s \in DOMAIN metadata.platform_hashes
                   THEN SaveMetadata(pr, [metadata EXCEPT
                                            !.platform_hashes = DelHash(@, platform.s)])
                   ELSE pr
         IN  [p1 EXCEPT !.cache =
                [f \in CachePaths |->
                    IF \E t \in ClearedTypes :
                          Supported(platform.s, t) /\ f = GetCachedFilePath(platform.s, t)
                    THEN NoFile ELSE @[f]]]
    ELSE LET p1 == [pr EXCEPT !.cache = [f \in CachePaths |-> NoFile]]
             metadata == LoadMetadata(p1)
         IN  SaveMetadata(p1, [metadata EXCEPT !.config_hash = None,
                                               !.platform_hashes = NoHashes])

----------------------------------------------------------------------------
(* The application id *)

\* str(uuid.uuid5(uuid.NAMESPACE_DNS, app_name)).upper(): a text determined by
\* the name; uuid5 is taken to be injective, so the text is represented by
\* the name it was derived from
GenerateAppId(app_name) == [t |-> "uuid5", s |-> app_name.s, d |-> <<>>]

\* config.get("platforms", {}).get("windows", {}).get("inno_setup", {}).get("app_id")
ConfigAppId(config) ==
    Get(Get(Get(Get(config, "platforms", EmptyDict), "windows", EmptyDict),
            "inno_setup", EmptyDict), "app_id", None)

\* the name taken from another field
AppNameFromVersion(config) == Get(config, "version", Str("MyApp"))

\* config.get("name", "MyApp")
AppName(config) == Get(config, "name", Str("MyApp"))

\* get_or_generate_app_id that prefers the metadata to the configuration
GetOrGenerateAppIdMetaFirst(pr, config) ==
    LET metadata == LoadMetadata(pr)
    IN  IF Truthy(metadata.app_id)
        THEN [id |-> metadata.app_id, pr |-> pr]
        ELSE IF Truthy(ConfigAppId(config))
        THEN [id |-> ConfigAppId(config),
              pr |-> SaveMetadata(pr, [metadata EXCEPT !.app_id = ConfigAppId(config)])]
        ELSE [id |-> GenerateAppId(AppName(config)),
              pr |-> SaveMetadata(pr, [metadata EXCEPT
                                         !.app_id = GenerateAppId(AppName(config)),
                                         !.created = Now])]

\* get_or_generate_app_id that derives the id of a config without an
\* explicit id from its name on every call
GetOrGenerateAppIdByName(pr, config) ==
    LET app_id == ConfigAppId(config)
        metadata == LoadMetadata(pr)
        new_id == GenerateAppId(AppName(config))
    IN  IF Truthy(app_id)
        THEN [id |-> app_id,
              pr |-> IF metadata.app_id # app_id
                     THEN SaveMetadata(pr, [metadata EXCEPT !.app_id = app_id])
                     ELSE pr]
        ELSE [id |-> new_id,
              pr |-> IF metadata.app_id # new_id
                     THEN SaveMetadata(pr, [metadata EXCEPT
                            !.app_id = new_id,
                            !.created = IF Truthy(@) THEN @ ELSE Now])
                     ELSE pr]

\* returns the id and the project directory after the call
GetOrGenerateAppId(pr, config) ==
    LET app_id == ConfigAppId(config)
        metadata == LoadMetadata(pr)
    IN  IF Truthy(app_id)
        THEN [id |-> app_id,
              pr |-> IF metadata.app_id # app_id
                     THEN SaveMetadata(pr, [metadata EXCEPT !.app_id = app_id])
                     ELSE pr]
        ELSE IF Truthy(metadata.app_id)
        THEN [id |-> metadata.app_id, pr |-> pr]
        ELSE LET new_id == GenerateAppId(AppName(config))
             IN  [id |-> new_id,
                  pr |-> SaveMetadata(pr, [metadata EXCEPT
                            !.app_id = new_id,
                            !.created = IF Truthy(@) THEN @ ELSE Now])]

\* d[k1][k2]...[kn] = val, creating the missing mappings on the way
RECURSIVE PutPath(_, _, _)
PutPath(dct, path, val) ==
    IF Len(path) = 1 THEN Put(dct, path[1], val)
    ELSE Put(dct, path[1], PutPath(Get(dct, path[1], EmptyDict), Tail(path), val))

\* the configuration file: state is "absent", "corrupt" (not parseable),
\* "readonly" (readable, not writable) or "ok"; doc is the stored document
NoDisk == [state |-> "absent", doc |-> EmptyDict]

\* a section the code can look into and assign into: absent (it is then
\* created) or a mapping; on anything else the membership test or the item
\* assignment raises TypeError
SectionOk(dct, key) == ~Has(dct, key) \/ Get(dct, key, None).t = "dict"

\* the stored document can take the id: it is a mapping and so are the
\* sections platforms, windows and inno_setup where present
Updatable(doc) ==
    /\ doc.t = "dict"
    /\ SectionOk(doc, "platforms")
    /\ SectionOk(Get(doc, "platforms", EmptyDict), "windows")
    /\ SectionOk(Get(Get(doc, "platforms", EmptyDict), "windows", EmptyDict), "inno_setup")

\* the update that writes a new windows section in place of the stored one
UpdateBuildConfigNewSection(dk, app_id) ==
    IF dk.state = "ok" /\ Updatable(dk.doc)
    THEN [ok |-> TRUE,
          dk |-> [dk EXCEPT !.doc =
                    PutPath(@, <<"platforms", "windows">>,
                            Lit(<< Entry("inno_setup",
                                         Lit(<< Entry("app_id", app_id) >>)) >>))]]
    ELSE [ok |-> FALSE, dk |-> dk]

\* returns whether the file was updated and the file after the call; every
\* exception (file missing, not JSON, not writable, TypeError) is caught
UpdateBuildConfigWithAppId(dk, app_id) ==
    IF dk.state = "ok" /\ Updatable(dk.doc)
    THEN [ok |-> TRUE,
          dk |-> [dk EXCEPT !.doc = PutPath(@, <<"platforms", "windows", "inno_setup", "app_id">>,
                                            app_id)]]
    ELSE [ok |-> FALSE, dk |-> dk]

----------------------------------------------------------------------------
(* The generators *)

\* str.lower() on the names of the model
Lower(x) ==
    Str(CASE x.s = "A" -> "a" [] x.s = "B" -> "b" [] x.s = "MyApp" -> "myapp"
          [] OTHER -> x.s)

Version(config) == Get(config, "version", Str("1.0.0"))
DisplayName(config) == Get(config, "display_name", Get(config, "name", Str("MyApp")))

\* the text of a generated file is represented by the values interpolated
\* into its template
BuildWindowsIss(config) ==
    LET inno_config == Get(Get(Get(config, "platforms", EmptyDict), "windows", EmptyDict),
                           "inno_setup", EmptyDict)
    IN  Lit(<< Entry("AppId", Get(inno_config, "app_id", Str(""))),
               Entry("AppName", Get(config, "name", Str("MyApp"))),
               Entry("AppVersion", Version(config)),
               Entry("AppVerName", DisplayName(config)),
               Entry("AppPublisher", Get(config, "publisher", Str("Unknown Publisher"))) >>)

BuildMacosPlist(config) ==
    LET macos_config == Get(Get(config, "platforms", EmptyDict), "macos", EmptyDict)
    IN  Lit(<< Entry("CFBundleDisplayName", DisplayName(config)),
               Entry("CFBundleExecutable", Get(config, "name", Str("MyApp"))),
               Entry("CFBundleIdentifier",
                     Get(macos_config, "bundle_identifier",
                         Lower(Get(config, "name", Str("MyApp"))))),
               Entry("CFBundleVersion", Version(config)) >>)

BuildDmgConfig(config) ==
    LET dmg_config == Get(Get(Get(config, "platforms", EmptyDict), "macos", EmptyDict),
                          "create_dmg", EmptyDict)
    IN  Lit(<< Entry("volname", Get(dmg_config, "volname", DisplayName(config))),
               Entry("format", Get(dmg_config, "format", Str("UDZO"))),
               Entry("filesystem", Get(dmg_config, "filesystem", Str("HFS+"))) >>)

BuildLinuxControl(config) ==
    LET deb_config == Get(Get(Get(config, "platforms", EmptyDict), "linux", EmptyDict),
                          "deb", EmptyDict)
    IN  Lit(<< Entry("Package", Lower(Get(config, "name", Str("MyApp")))),
               Entry("Version", Version(config)),
               Entry("Section", Get(deb_config, "section", Str("utils"))),
               Entry("Description",
                     Get(deb_config, "description",
                         Get(config, "display_name", Lower(Get(config, "name", Str("MyApp")))))) >>)

BuildRpmSpec(config) ==
    LET rpm_config == Get(Get(Get(config, "platforms", EmptyDict), "linux", EmptyDict),
                          "rpm", EmptyDict)
    IN  Lit(<< Entry("Name", Lower(Get(config, "name", Str("MyApp")))),
               Entry("Version", Version(config)),
               Entry("Summary", Get(rpm_config, "summary", DisplayName(config))),
               Entry("changelog", Now) >>)

BuildDesktopFile(config) ==
    Lit(<< Entry("Name", DisplayName(config)),
           Entry("Exec", Lower(Get(config, "name", Str("MyApp")))),
           Entry("Comment", Get(config, "description", DisplayName(config))),
           Entry("Version", Version(config)) >>)

Write(file_type, content) == [file_type |-> file_type, content |-> content]

\* the save_cached_file calls of each generator, in order
GeneratorWrites(config, platform) ==
    LET linux == Get(Get(config, "platforms", EmptyDict), "linux", EmptyDict)
    IN  CASE platform = "windows" -> << Write("iss", BuildWindowsIss(config)) >>
          [] platform = "macos" ->
               << Write("plist", BuildMacosPlist(config)),
                  Write("dmg_config", BuildDmgConfig(config)) >>
          [] platform = "linux" ->
               (IF Has(linux, "deb") THEN << Write("control", BuildLinuxControl(config)) >>
                ELSE <<>>)
               \o (IF Has(linux, "rpm") THEN << Write("spec", BuildRpmSpec(config)) >>
                   ELSE <<>>)
               \o << Write("desktop", BuildDesktopFile(config)) >>

RECURSIVE SaveWrites(_, _, _, _, _)
SaveWrites(pr, platform, writes, n, gen) ==
    IF n = 0 THEN pr
    ELSE SaveCachedFile(SaveWrites(pr, platform, writes, n - 1, gen),
                        platform, writes[n].file_type, File(writes[n].content, gen))

\* _generate_<platform>_configs: fault = 0 is a run without an error, fault = k
\* makes the generator's k-th write raise (inside its try), so that it returns
\* False after k - 1 writes; a generator with fewer than k writes succeeds
Generate(pr, config, platform, fault, fs) ==
    Only({ [success |-> ~(fault > 0 /\ fault <= Len(writes)),
            pr |-> SaveWrites(pr, platform, writes,
                              IF fault > 0 /\ fault <= Len(writes)
                              THEN fault - 1 ELSE Len(writes),
                              gen)]
           : writes \in {GeneratorWrites(config, platform)},
             gen \in {CalculateConfigHash(config, Str(platform), fs)} })

----------------------------------------------------------------------------
(* should_pre_generate_all_configs and pre_generate_all_platform_configs *)

Enabled(config, platform) == Has(Get(config, "platforms", EmptyDict), platform)

\* the decision that looks at all three platforms, enabled or not
ShouldPreGenerateEveryPlatform(pr, config, fs) ==
    \/ \E p \in Platforms : ShouldRegenerateConfig(pr, config, Str(p), fs)
    \/ CalculateConfigHash(config, None, fs) # LoadCachedHash(pr, None)

ShouldPreGenerateAllConfigs(pr, config, fs) ==
    \/ \E p \in Platforms :
          Enabled(config, p) /\ ShouldRegenerateConfig(pr, config, Str(p), fs)
    \/ CalculateConfigHash(config, None, fs) # LoadCachedHash(pr, None)

NoResults == [p \in {} |-> "skipped"]

SetResult(results, p, r) ==
    [q \in (DOMAIN results) \cup {p} |-> IF q = p THEN r ELSE results[q]]

\* the loop leaving at the first generator that fails
RECURSIVE PlatformLoopAbort(_, _, _, _, _, _)
PlatformLoopAbort(pr, results, config, plan, fs, i) ==
    IF i > Len(PlatformNames) THEN [pr |-> pr, results |-> results]
    ELSE LET platform == PlatformNames[i]
         IN  IF Enabled(config, platform)
             THEN Only({
                    IF g.success
                    THEN PlatformLoopAbort(
                             SaveConfigHash(g.pr,
                                            CalculateConfigHash(config, Str(platform), fs),
                                            Str(platform)),
                             SetResult(results, platform, "success"),
                             config, plan, fs, i + 1)
                    ELSE [pr |-> g.pr, results |-> SetResult(results, platform, "failure")]
                    : g \in {Generate(pr, config, platform, plan[platform], fs)} })
             ELSE PlatformLoopAbort(pr, SetResult(results, platform, "skipped"),
                                    config, plan, fs, i + 1)

\* "for platform, generator in platform_generators.items()", from the i-th
\* platform on; results hold "success" (True), "failure" (False) or "skipped"
RECURSIVE PlatformLoop(_, _, _, _, _, _)
PlatformLoop(pr, results, config, plan, fs, i) ==
    IF i > Len(PlatformNames) THEN [pr |-> pr, results |-> results]
    ELSE LET platform == PlatformNames[i]
         IN  IF Enabled(config, platform)
             THEN Only({
                    IF g.success
                    THEN PlatformLoop(
                             SaveConfigHash(g.pr,
                                            CalculateConfigHash(config, Str(platform), fs),
                                            Str(platform)),
                             SetResult(results, platform, "success"),
                             config, plan, fs, i + 1)
                    ELSE PlatformLoop(g.pr, SetResult(results, platform, "failure"),
                                      config, plan, fs, i + 1)
                    : g \in {Generate(pr, config, platform, plan[platform], fs)} })
             ELSE PlatformLoop(pr, SetResult(results, platform, "skipped"),
                               config, plan, fs, i + 1)

\* the configuration the generators run on: the document reloaded from the
\* file when the application id was written back into it, else the caller's
EffectiveConfig(config, config_file_path, upd) ==
    IF ~Truthy(ConfigAppId(config)) /\ Truthy(config_file_path) /\ upd.ok
    THEN upd.dk.doc
    ELSE config

\* returns the project directory and the configuration file after the call,
\* the results, the resolved id and the configuration the generators ran on
\* the write-back of the id: only when the configuration has no id and a
\* configuration file path was given
WriteBack(dk, config, config_file_path, app_id) ==
    IF ~Truthy(ConfigAppId(config)) /\ Truthy(config_file_path)
    THEN UpdateBuildConfigWithAppId(dk, app_id)
    ELSE [ok |-> FALSE, dk |-> dk]

\* the platform loop and the final save of the global hash
GenerateAndSave(pr, dk, config1, plan, fs, app_id) ==
    Only({ [pr |-> SaveConfigHash(l.pr, CalculateConfigHash(config1, None, fs), None),
            dk |-> dk,
            results |-> l.results,
            app_id |-> app_id,
            config |-> config1]
           : l \in {PlatformLoop(pr, NoResults, config1, plan, fs, 1)} })

PreGenerateAllPlatformConfigs(pr, dk, config, config_file_path, plan, fs) ==
    Only({ Only({ Only({ GenerateAndSave(a.pr, upd.dk, config1, plan, fs, a.id)
                         : config1 \in {EffectiveConfig(config, config_file_path, upd)} })
                  : upd \in {WriteBack(dk, config, config_file_path, a.id)} })
           : a \in {GetOrGenerateAppId(pr, config)} })

----------------------------------------------------------------------------
(* The configurations, files and faults of the model *)

Projects == {1, 2}

ConfigPath == Str("build.json")

Windows(app_id) ==
    Entry("windows", Lit(<< Entry("inno_setup", Lit(<< Entry("app_id", app_id) >>)) >>))
Macos == Entry("macos", EmptyDict)
Linux(deb) == Entry("linux", Lit(<< Entry("deb", deb) >>))

Config(name, version, platforms) ==
    Lit(<< Entry("name", name), Entry("version", version),
           Entry("platforms", platforms) >>)

Demo == Config(Str("A"), Str("1.0.0"), Lit(<< Windows(Absent) >>))
DemoX == Config(Str("A"), Str("1.0.0"), Lit(<< Windows(Str("X")) >>))
DemoEmptyId == Config(Str("A"), Str("1.0.0"), Lit(<< Windows(Str("")) >>))
DemoV2 == Config(Str("A"), Str("2.0.0"), Lit(<< Windows(Absent) >>))
DemoB == Config(Str("B"), Str("1.0.0"), Lit(<< Windows(Absent) >>))
AllDeb == Config(Str("A"), Str("1.0.0"), Lit(<< Windows(Absent), Macos, Linux(EmptyDict) >>))
AllNoDeb == Config(Str("A"), Str("1.0.0"), Lit(<< Windows(Absent), Macos, Linux(Absent) >>))
LinuxOnly == Config(Str("A"), Str("1.0.0"), Lit(<< Linux(Absent) >>))
NoName == Config(Absent, Str("1.0.0"), Absent)

Scopes == {None} \cup {Str(p) : p \in Platforms}

ContentNames == <<"bytes1", "bytes2", "bytes3", "bytes4">>
Contents == {ContentNames[i] : i \in 1..MaxContents}

NoResource == [exists |-> FALSE, readable |-> FALSE, content |-> ""]
Resource(content) == [exists |-> TRUE, readable |-> TRUE, content |-> content]
Unreadable(content) == [exists |-> TRUE, readable |-> FALSE, content |-> content]

DefaultFs == [p \in Paths |-> Resource("bytes1")]

DiskOk(doc) == [state |-> "ok", doc |-> doc]

\* the most save_cached_file calls each generator makes
WritesOf == [windows |-> 1, macos |-> 2, linux |-> 3]
Plans == {plan \in [Platforms -> 0..3] : \A p \in Platforms : plan[p] <= WritesOf[p]}
NoFault == [p \in Platforms |-> 0]
FaultsOf(plan) == Cardinality({p \in Platforms : plan[p] > 0})

NoCall == [called |-> FALSE, config |-> EmptyDict, ret |-> None, fresh |-> FALSE]
NoLast == [op |-> "none", m |-> 0, config |-> EmptyDict, platform |-> None,
           path |-> None, disk |-> NoDisk, ret |-> None]

IdsOf(pr) == IF Truthy(LoadMetadata(pr).app_id) THEN {LoadMetadata(pr).app_id} ELSE {}

----------------------------------------------------------------------------
(* The operations on a project directory *)

session == <<cfgA, cfgB, scope, fsA, edits, pc, hres, procs, events>>

\* the bookkeeping every operation shares: the project directory after the
\* call and the record of the call
Done(m, pr, rec) ==
    /\ calls' = calls + 1
    /\ store' = [store EXCEPT ![m] = pr]
    /\ persisted' = [persisted EXCEPT ![m] = @ \cup IdsOf(pr)]
    /\ last' = rec
    /\ UNCHANGED <<fsys, session>>

\* pre_generate_all_platform_configs(config, path) while the configuration
\* file is in state dk (the user edits that file between calls).  plan[p] = k
\* makes the k-th write of p's generator fail.
DoPreGenerate(m, config, path, dk, plan) ==
    /\ faults + FaultsOf(plan) <= MaxFaults
    /\ faults' = faults + FaultsOf(plan)
    /\ first' = first
    /\ Truthy(path) \/ dk = disk
    /\ \A p \in Platforms :
          plan[p] > 0 => Enabled(config, p) \/ (p = "windows" /\ Truthy(path))
    /\ \E r \in {PreGenerateAllPlatformConfigs(store[m], dk, config, path, plan, fsys)} :
          /\ \A p \in Platforms :
                plan[p] > 0 => /\ Enabled(r.config, p)
                               /\ plan[p] <= Len(GeneratorWrites(r.config, p))
          /\ disk' = r.dk
          /\ Done(m, r.pr, [op |-> "pre_generate_all_platform_configs", m |-> m,
                             config |-> config, platform |-> None, path |-> path,
                             disk |-> dk,
                             ret |-> [results |-> r.results, app_id |-> r.app_id,
                                      config |-> r.config, plan |-> plan]])

DoSaveConfigHash(m, config, platform) ==
    /\ UNCHANGED <<disk, faults, first>>
    /\ Done(m, SaveConfigHash(store[m], CalculateConfigHash(config, platform, fsys), platform),
            [op |-> "save_config_hash", m |-> m, config |-> config, platform |-> platform,
             path |-> None, disk |-> disk, ret |-> None])

DoClearCache(m, platform) ==
    /\ UNCHANGED <<disk, faults, first>>
    /\ Done(m, ClearCache(store[m], platform),
            [op |-> "clear_cache", m |-> m, config |-> EmptyDict, platform |-> platform,
             path |-> None, disk |-> disk, ret |-> None])

DoGetOrGenerateAppId(m, config) ==
    \E r \in {GetOrGenerateAppId(store[m], config)} :
        /\ UNCHANGED <<disk, faults>>
        /\ first' = IF first[m].called THEN first
                    ELSE [first EXCEPT ![m] =
                            [called |-> TRUE, config |-> config, ret |-> r.id,
                             fresh |-> ~Truthy(LoadMetadata(store[m]).app_id)]]
        /\ Done(m, r.pr, [op |-> "get_or_generate_app_id", m |-> m, config |-> config,
                          platform |-> None, path |-> None, disk |-> disk, ret |-> r.id])

DoShouldRegenerate(m, config, platform) ==
    /\ UNCHANGED <<disk, faults, first>>
    /\ Done(m, store[m],
            [op |-> "should_regenerate_config", m |-> m, config |-> config,
             platform |-> platform, path |-> None, disk |-> disk,
             ret |-> ShouldRegenerateConfig(store[m], config, platform, fsys)])

DoShouldPreGenerateAll(m, config) ==
    /\ UNCHANGED <<disk, faults, first>>
    /\ Done(m, store[m],
            [op |-> "should_pre_generate_all_configs", m |-> m, config |-> config,
             platform |-> None, path |-> None, disk |-> disk,
             ret |-> ShouldPreGenerateAllConfigs(store[m], config, fsys)])

InitCommon ==
    /\ store = [m \in Projects |-> EmptyProject]
    /\ disk = NoDisk
    /\ fsys = DefaultFs
    /\ calls = 0
    /\ faults = 0
    /\ last = NoLast
    /\ persisted = [m \in Projects |-> {}]
    /\ first = [m \in Projects |-> NoCall]

\* no call is running step by step
NoProcs == procs = <<>> /\ events = <<>>

NoSession ==
    /\ cfgA = EmptyDict /\ cfgB = EmptyDict /\ scope = None /\ fsA = DefaultFs
    /\ edits = 0 /\ pc = "off" /\ hres = None
    /\ NoProcs

----------------------------------------------------------------------------
(* Spec: batch pre-generation and the decision to run it, on one project *)

Configs == {Demo, DemoX, AllDeb, AllNoDeb}

\* the configurations passed together with the path of their file, and the
\* states that file can be in: missing, or holding the document (a config
\* with an explicit app id never touches the file)
PathConfigs == {Demo, DemoX, AllDeb}
DiskChoices(config) ==
    IF Truthy(ConfigAppId(config)) THEN {DiskOk(config)} ELSE {NoDisk, DiskOk(config)}

Init == InitCommon /\ NoSession

Running == calls < MaxCalls

Next ==
    \/ Running /\ \E c \in Configs, plan \in Plans : DoPreGenerate(1, c, None, disk, plan)
    \/ Running /\ \E c \in PathConfigs, plan \in Plans : \E dk \in DiskChoices(c) :
                     DoPreGenerate(1, c, ConfigPath, dk, plan)
    \/ Running /\ \E c \in Configs : DoShouldPreGenerateAll(1, c)
    \/ Running /\ \E p \in Scopes : DoClearCache(1, p)

Spec == Init /\ [][Next]_vars

----------------------------------------------------------------------------
(* SpecAppId: the application id on two project directories.  Project 1 is *)
(* asked for the id of configurations without an explicit id, between      *)
(* the other operations; project 2 is asked with every configuration.      *)

IdConfigs == {Demo, DemoX, DemoEmptyId, DemoV2, DemoB, NoName}
NoIdConfigs == {c \in IdConfigs : ~Truthy(ConfigAppId(c))}

IdRunning == calls < MaxIdCalls

IdNext ==
    \/ IdRunning /\ \E c \in NoIdConfigs : DoGetOrGenerateAppId(1, c)
    \/ IdRunning /\ \E c \in IdConfigs : DoGetOrGenerateAppId(2, c)
    \/ IdRunning /\ \E c \in {Demo, DemoX} : DoPreGenerate(1, c, None, disk, NoFault)
    \/ IdRunning /\ \E p \in {None, Str("windows")} : DoSaveConfigHash(1, Demo, p)
    \/ IdRunning /\ \E p \in {None, Str("windows")} : DoClearCache(1, p)
    \/ IdRunning /\ DoShouldRegenerate(1, Demo, Str("windows"))
    \/ IdRunning /\ DoShouldPreGenerateAll(1, Demo)

SpecAppId == Init /\ [][IdNext]_vars

----------------------------------------------------------------------------
(* SpecHash: a fingerprint session.  The hash of a configuration is saved  *)
(* for a scope (or not), the configuration and the resource files are      *)
(* edited, and the regeneration decision is taken for the result.          *)

RECURSIVE DelPath(_, _)
DelPath(dct, path) ==
    IF Len(path) = 1 THEN Pop(dct, path[1])
    ELSE IF Has(dct, path[1])
         THEN Put(dct, path[1], DelPath(Get(dct, path[1], EmptyDict), Tail(path)))
         ELSE dct

\* the same mapping with the keys of every level inserted in reverse order
RECURSIVE DeepReverse(_)
DeepReverse(v) ==
    IF v.t = "dict"
    THEN Dict(<<>> \o [i \in 1..Len(v.d) |->
                         Entry(v.d[Len(v.d) + 1 - i].k,
                               DeepReverse(v.d[Len(v.d) + 1 - i].v))])
    ELSE v

SetOp(path, val) == [op |-> "set", path |-> path, val |-> Str(val)]
DelOp(path) == [op |-> "del", path |-> path, val |-> None]

EditOps ==
    { SetOp(<<"version">>, "2.0.0"), DelOp(<<"version">>),
      SetOp(<<"verbose">>, "true"), DelOp(<<"verbose">>),
      SetOp(<<"icon">>, "b.ico"), DelOp(<<"icon">>),
      SetOp(<<"platforms", "windows", "inno_setup", "setup_icon">>, "a.ico"),
      DelOp(<<"platforms", "windows", "inno_setup", "setup_icon">>),
      SetOp(<<"platforms", "windows", "inno_setup", "verbose">>, "true"),
      SetOp(<<"platforms", "macos", "icon">>, "a.ico"),
      DelOp(<<"platforms", "linux", "deb">>),
      DelOp(<<"platforms", "macos">>),
      [op |-> "reverse", path |-> <<>>, val |-> None] }

ApplyEdit(config, e) ==
    CASE e.op = "set" -> PutPath(config, e.path, e.val)
      [] e.op = "del" -> DelPath(config, e.path)
      [] e.op = "reverse" -> DeepReverse(config)

Full ==
    Lit(<< Entry("name", Str("A")), Entry("version", Str("1.0.0")),
           Entry("icon", Str("a.ico")),
           Entry("platforms",
                 Lit(<< Entry("windows",
                              Lit(<< Entry("inno_setup",
                                           Lit(<< Entry("setup_icon", Str("b.ico")) >>)) >>)),
                        Entry("macos", Lit(<< Entry("icon", Str("b.ico")) >>)),
                        Entry("linux",
                              Lit(<< Entry("deb", Lit(<< Entry("icon", Str("b.ico")) >>)) >>))
                     >>)) >>)

BaseConfigs == {Full, Demo}

HInit ==
    /\ InitCommon
    /\ cfgA \in BaseConfigs
    /\ cfgB = cfgA
    /\ scope \in Scopes
    /\ fsA = fsys
    /\ edits = 0
    /\ pc = "start"
    /\ hres = None
    /\ NoProcs

hframe == <<disk, calls, faults, last, persisted, first, procs, events>>

\* save_config_hash(calculate_config_hash(config, scope), scope)
HSave ==
    /\ pc = "start" /\ edits = 0
    /\ store' = [store EXCEPT ![1] =
                    SaveConfigHash(@, CalculateConfigHash(cfgA, scope, fsys), scope)]
    /\ pc' = "saved"
    /\ UNCHANGED <<fsys, cfgA, cfgB, scope, fsA, edits, hres, hframe>>

\* the user edits the configuration
HEditConfig(e) ==
    /\ pc \in {"start", "saved"} /\ edits < MaxEdits
    /\ cfgB' = ApplyEdit(cfgB, e)
    /\ cfgB' # cfgB
    /\ edits' = edits + 1
    /\ UNCHANGED <<store, fsys, cfgA, scope, fsA, pc, hres, hframe>>

\* the user deletes, protects or rewrites a resource file
HEditFile(path, st) ==
    /\ pc \in {"start", "saved"} /\ edits < MaxEdits
    /\ st # fsys[path]
    /\ fsys' = [fsys EXCEPT ![path] = st]
    /\ edits' = edits + 1
    /\ UNCHANGED <<store, cfgA, cfgB, scope, fsA, pc, hres, hframe>>

\* for every scope: calculate_config_hash of the saved configuration (on the
\* files as they were) and of the edited one, load_cached_hash and
\* should_regenerate_config for the edited one
HCheck ==
    /\ pc \in {"start", "saved"}
    /\ pc' = "checked"
    /\ hres' = [saved |-> (pc = "saved"),
                hashA |-> [q \in Scopes |-> CalculateConfigHash(cfgA, q, fsA)],
                hashB |-> [q \in Scopes |-> CalculateConfigHash(cfgB, q, fsys)],
                cached |-> [q \in Scopes |-> LoadCachedHash(store[1], q)],
                regen |-> [q \in Scopes |->
                             ShouldRegenerateConfig(store[1], cfgB, q, fsys)]]
    /\ UNCHANGED <<store, fsys, cfgA, cfgB, scope, fsA, edits, hframe>>

FileEdits(path) ==
    {NoResource} \cup {Resource(c) : c \in Contents}
    \cup (IF fsys[path].exists THEN {Unreadable(fsys[path].content)} ELSE {})

HNext ==
    \/ HSave
    \/ \E e \in EditOps : HEditConfig(e)
    \/ \E path \in Paths : \E st \in FileEdits(path) : HEditFile(path, st)
    \/ HCheck

SpecHash == HInit /\ [][HNext]_vars

----------------------------------------------------------------------------
(* SpecMeta: the metadata record, its hashes and a damaged metadata file *)

\* the outcome of a call: returned a value, or raised
Returned(val) == [raised |-> FALSE, val |-> val]
Raised(kind) == [raised |-> TRUE, val |-> Str(kind)]

Call(op, m, config, platform, ret) ==
    [op |-> op, m |-> m, config |-> config, platform |-> platform,
     path |-> None, disk |-> disk, ret |-> ret]

\* load_metadata()
DoLoadMetadata(m) ==
    /\ UNCHANGED <<disk, faults, first>>
    /\ Done(m, store[m],
            Call("load_metadata", m, EmptyDict, None, Returned(LoadMetadata(store[m]))))

\* load_cached_hash(platform)
DoLoadCachedHash(m, platform) ==
    /\ UNCHANGED <<disk, faults, first>>
    /\ Done(m, store[m],
            Call("load_cached_hash", m, EmptyDict, platform,
                 Returned(LoadCachedHash(store[m], platform))))

\* metadata.json is overwritten with text that is not JSON (by another
\* program, or by a write that was cut short)
DamagedMetadata(pr) ==
    [pr EXCEPT !.meta_exists = TRUE, !.meta_corrupt = TRUE]

DoDamageMetadata(m) ==
    /\ ~store[m].meta_corrupt
    /\ UNCHANGED <<disk, faults, first>>
    /\ Done(m, DamagedMetadata(store[m]), Call("damage_metadata", m, EmptyDict, None, None))

\* the project directory after pre_generate_all_platform_configs(AllDeb, None)
\* on a fresh one
Pregenerated ==
    PreGenerateAllPlatformConfigs(EmptyProject, NoDisk, AllDeb, None, NoFault, DefaultFs).pr

StartProjects == {EmptyProject, Pregenerated}

InitFrom(pr) ==
    /\ store = [m \in Projects |-> IF m = 1 THEN pr ELSE EmptyProject]
    /\ persisted = [m \in Projects |-> IF m = 1 THEN IdsOf(pr) ELSE {}]
    /\ disk = NoDisk
    /\ fsys = DefaultFs
    /\ calls = 0
    /\ faults = 0
    /\ last = NoLast
    /\ first = [m \in Projects |-> NoCall]
    /\ NoSession

MetaInit == \E pr \in StartProjects : InitFrom(pr)

\* the calls that only read the project directory; such a call ends a
\* behaviour here, since what could follow it could follow its predecessor
ReadOnlyOps ==
    {"load_metadata", "load_cached_hash", "should_regenerate_config",
     "should_pre_generate_all_configs", "load_cached_file", "get_cached_file_path"}

MetaOpen == calls < MaxMetaCalls /\ last.op \notin ReadOnlyOps

MetaNext ==
    \/ MetaOpen /\ \E c \in {Demo, DemoV2}, p \in Scopes : DoSaveConfigHash(1, c, p)
    \/ MetaOpen /\ DoGetOrGenerateAppId(1, Demo)
    \/ MetaOpen /\ \E p \in Scopes : DoClearCache(1, p)
    \/ MetaOpen /\ DoDamageMetadata(1)
    \/ MetaOpen /\ DoPreGenerate(1, Demo, None, disk, NoFault)
    \/ MetaOpen /\ DoLoadMetadata(1)
    \/ MetaOpen /\ \E p \in Scopes : DoLoadCachedHash(1, p)
    \/ MetaOpen /\ \E c \in {Demo, AllDeb} : DoShouldPreGenerateAll(1, c)
    \/ MetaOpen /\ \E c \in {Demo, AllDeb}, p \in Scopes : DoShouldRegenerate(1, c, p)

SpecMeta == MetaInit /\ [][MetaNext]_vars

----------------------------------------------------------------------------
(* SpecFiles: the cached generated files and the clearing of the cache *)

\* the platform and file type names callers pass, supported or not
PlatformArgs == Platforms \cup {"freebsd"}
FileTypeArgs == FileTypes \cup {"nsi"}

\* get_cached_file_path(platform, file_type): the path, or the ValueError of
\* a pair that filename_map does not hold
GetCachedFilePathCall(platform, file_type) ==
    IF Supported(platform, file_type)
    THEN Returned(GetCachedFilePath(platform, file_type))
    ELSE Raised("ValueError")

\* save_cached_file(platform, file_type, content): the ValueError of
\* get_cached_file_path is not caught
SaveCachedFileCall(pr, platform, file_type, content) ==
    IF Supported(platform, file_type)
    THEN [ret |-> Returned(None),
          pr |-> SaveCachedFile(pr, platform, file_type, File(content, None))]
    ELSE [ret |-> Raised("ValueError"), pr |-> pr]

\* load_cached_file(platform, file_type): every exception is caught and None
\* returned
LoadCachedFileCall(pr, platform, file_type) ==
    Returned(LoadCachedFile(pr, platform, file_type))

FileCall(op, m, platform, file_type, ret) ==
    [op |-> op, m |-> m, config |-> EmptyDict, platform |-> Str(platform),
     file_type |-> file_type, path |-> None, disk |-> disk, ret |-> ret]

DoGetCachedFilePath(m, platform, file_type) ==
    /\ UNCHANGED <<disk, faults, first>>
    /\ Done(m, store[m],
            FileCall("get_cached_file_path", m, platform, file_type,
                     GetCachedFilePathCall(platform, file_type)))

DoSaveCachedFile(m, platform, file_type, content) ==
    \E r \in {SaveCachedFileCall(store[m], platform, file_type, content)} :
        /\ UNCHANGED <<disk, faults, first>>
        /\ Done(m, r.pr, FileCall("save_cached_file", m, platform, file_type, r.ret))

DoLoadCachedFile(m, platform, file_type) ==
    /\ UNCHANGED <<disk, faults, first>>
    /\ Done(m, store[m],
            FileCall("load_cached_file", m, platform, file_type,
                     LoadCachedFileCall(store[m], platform, file_type)))

\* a behaviour ends with a read-only call or with a call that raised
FileOpen ==
    /\ calls < MaxFileCalls
    /\ last.op \notin ReadOnlyOps
    /\ ~(last.op = "save_cached_file" /\ last.ret.raised)

FileNext ==
    \/ FileOpen /\ \E p \in PlatformArgs, t \in FileTypeArgs :
                      DoSaveCachedFile(1, p, t, Str("text"))
    \/ FileOpen /\ \E p \in PlatformArgs, t \in FileTypeArgs : DoLoadCachedFile(1, p, t)
    \/ FileOpen /\ \E p \in PlatformArgs, t \in FileTypeArgs : DoGetCachedFilePath(1, p, t)
    \/ FileOpen /\ \E p \in Scopes : DoClearCache(1, p)
    \/ FileOpen /\ \E p \in Scopes : DoSaveConfigHash(1, Demo, p)
    \/ FileOpen /\ DoGetOrGenerateAppId(1, Demo)

SpecFiles == MetaInit /\ [][FileNext]_vars

----------------------------------------------------------------------------
(* SpecDisk: the write-back of the application id into the configuration file *)

\* values a windows section of a stored document can have
WindowsSections ==
    { None, EmptyDict,
      Lit(<< Entry("inno_setup", Str("default")) >>),
      Lit(<< Entry("inno_setup", EmptyDict), Entry("icon", Str("a.ico")) >>),
      Lit(<< Entry("inno_setup", Lit(<< Entry("app_id", Str("X")) >>)) >>),
      Lit(<< Entry("inno_setup", Lit(<< Entry("setup_icon", Str("a.ico")) >>)) >>) }

PlatformsSections ==
    {Absent, Str("all"), EmptyDict, Lit(<< Macos >>), Lit(<< Linux(Absent) >>)}
    \cup {Lit(<< Entry("windows", w), Macos >>) : w \in WindowsSections}

\* the documents the configuration file can hold
Documents ==
    {Str("not a mapping")}
    \cup {Config(Str("A"), Str("1.0.0"), pl) : pl \in PlatformsSections}

DiskStates == {"absent", "corrupt", "readonly", "ok"}

Disks == {NoDisk} \cup {[state |-> st, doc |-> doc] : st \in DiskStates \ {"absent"},
                                                    doc \in Documents}

DiskInit ==
    /\ store = [m \in Projects |-> EmptyProject]
    /\ persisted = [m \in Projects |-> {}]
    /\ disk \in Disks
    /\ fsys = DefaultFs
    /\ calls = 0
    /\ faults = 0
    /\ last = NoLast
    /\ first = [m \in Projects |-> NoCall]
    /\ NoSession

\* update_build_config_with_app_id(config_file_path, app_id)
DoUpdateBuildConfig(m, app_id) ==
    \E r \in {UpdateBuildConfigWithAppId(disk, app_id)} :
        /\ disk' = r.dk
        /\ UNCHANGED <<faults, first>>
        /\ Done(m, store[m],
                [op |-> "update_build_config_with_app_id", m |-> m, config |-> EmptyDict,
                 platform |-> None, path |-> ConfigPath, disk |-> disk, app_id |-> app_id,
                 ret |-> Returned(r.ok)])

\* the user removes the file, protects it against writing or makes it
\* writable again
DoSetDiskState(m, st) ==
    /\ disk.state \in {"ok", "readonly"} /\ st # disk.state
    /\ disk' = IF st = "absent" THEN NoDisk ELSE [disk EXCEPT !.state = st]
    /\ UNCHANGED <<faults, first>>
    /\ Done(m, store[m], Call("set_file_state", m, EmptyDict, None, None))

DiskOpen == calls < MaxDiskCalls

DiskNext ==
    \/ DiskOpen /\ \E id \in {Str("X"), GenerateAppId(Str("A"))} : DoUpdateBuildConfig(1, id)
    \/ DiskOpen /\ \E st \in {"absent", "readonly", "ok"} : DoSetDiskState(1, st)
    \/ DiskOpen /\ \E c \in {Demo, LinuxOnly} : DoPreGenerate(1, c, ConfigPath, disk, NoFault)

SpecDisk == DiskInit /\ [][DiskNext]_vars

----------------------------------------------------------------------------
(* ConfigManager: merge of the configuration sources and validation *)

\* _get_default_config
DefaultConfig ==
    Lit(<< Entry("name", Str("UnknownApp")), Entry("version", Str("1.0.0")),
           Entry("entry", Str("main.py")), Entry("publisher", Str("Unknown Publisher")),
           Entry("onefile", Bool(FALSE)), Entry("skip_installer", Bool(FALSE)),
           Entry("pyinstaller", Lit(<< Entry("clean", Bool(TRUE)),
                                       Entry("noconfirm", Bool(TRUE)) >>)) >>)

\* dict.update(other)
RECURSIVE UpdateEntries(_, _)
UpdateEntries(dct, es) ==
    IF es = <<>> THEN dct
    ELSE UpdateEntries(Put(dct, Head(es).k, Head(es).v), Tail(es))

Update(dct, other) == UpdateEntries(dct, other.d)

\* the global part that leaves out platform_specific only
GlobalConfigKeepsPlatforms(raw_config) ==
    Dict(SelectSeq(raw_config.d, LAMBDA e : e.k # "platform_specific"))

\* the raw configuration without the keys platform_specific and platforms
GlobalConfig(raw_config) ==
    Dict(SelectSeq(raw_config.d, LAMBDA e : e.k \notin {"platform_specific", "platforms"}))

\* _get_platform_config: the section of the current platform under platforms,
\* else the one under platform_specific, else nothing
GetPlatformConfig(raw_config, current_platform) ==
    IF ~Truthy(raw_config) THEN EmptyDict
    ELSE IF Has(Get(raw_config, "platforms", EmptyDict), current_platform.s)
    THEN Get(Get(raw_config, "platforms", EmptyDict), current_platform.s, None)
    ELSE IF Has(Get(raw_config, "platform_specific", EmptyDict), current_platform.s)
    THEN Get(Get(raw_config, "platform_specific", EmptyDict), current_platform.s, None)
    ELSE EmptyDict

\* the arguments _args_to_config copies, in the order it goes through them
DirectMappings ==
    << "name", "display_name", "entry", "version", "publisher", "icon", "license",
       "readme", "hooks", "onefile", "skip_installer", "skip_exe", "inno_setup_path" >>

RECURSIVE ArgsToConfigFrom(_, _, _)
ArgsToConfigFrom(keys, args, config) ==
    IF keys = <<>> THEN config
    ELSE ArgsToConfigFrom(Tail(keys), args,
                          IF Has(args, Head(keys)) /\ Get(args, Head(keys), None) # None
                          THEN Put(config, Head(keys), Get(args, Head(keys), None))
                          ELSE config)

\* _args_to_config
ArgsToConfig(args) == ArgsToConfigFrom(DirectMappings, args, EmptyDict)

\* _merge_all_configs
MergeAllConfigs(raw_config, current_platform, args) ==
    LET afterGlobal == IF Truthy(raw_config)
                       THEN Update(DefaultConfig, GlobalConfig(raw_config))
                       ELSE DefaultConfig
        platform_config == GetPlatformConfig(raw_config, current_platform)
        afterPlatform == IF Truthy(platform_config)
                         THEN Update(afterGlobal, platform_config)
                         ELSE afterGlobal
    IN  IF Truthy(args) THEN Update(afterPlatform, ArgsToConfig(args)) ELSE afterPlatform

\* the validation that requires the name only
ValidateNameOnly(merged_config, existing) ==
    \/ ~Truthy(Get(merged_config, "name", None))
    \/ /\ Truthy(Get(merged_config, "entry", None))
       /\ Get(merged_config, "entry", None).s \notin existing

\* _validate_config: whether the list of errors is non-empty (a missing name,
\* a missing entry, an entry file that does not exist)
ValidateConfig(merged_config, existing) ==
    \/ ~Truthy(Get(merged_config, "name", None))
    \/ ~Truthy(Get(merged_config, "entry", None))
    \/ /\ Truthy(Get(merged_config, "entry", None))
       /\ Get(merged_config, "entry", None).s \notin existing

\* key.split('.') for the keys asked for
KeySplit(key) ==
    CASE key = "pyinstaller.clean" -> <<"pyinstaller", "clean">>
      [] OTHER -> <<key>>

\* the loop of get: value = value[k] for each k, KeyError and TypeError
\* caught
RECURSIVE GetFrom(_, _, _)
GetFrom(value, keys, default) ==
    IF keys = <<>> THEN value
    ELSE IF value.t = "dict" /\ Has(value, Head(keys))
    THEN GetFrom(Get(value, Head(keys), None), Tail(keys), default)
    ELSE default

\* get(key, default)
ConfigGet(merged_config, key, default) == GetFrom(merged_config, KeySplit(key), default)

\* _load_config
LoadConfig(dk) ==
    CASE dk.state = "absent" -> Raised("FileNotFoundError")
      [] dk.state = "corrupt" -> Raised("JSONDecodeError")
      [] OTHER -> Returned(dk.doc)

\* ConfigManager(config_path, args): the outcome for the caller and the merged
\* configuration the construction computed (Absent when it did not get there)
Construct(config_path, dk, args, current_platform, existing) ==
    LET loaded == IF Truthy(config_path) THEN LoadConfig(dk) ELSE Returned(EmptyDict)
        merged == MergeAllConfigs(loaded.val, current_platform, args)
    IN  IF loaded.raised THEN [ret |-> loaded, merged |-> Absent]
        ELSE IF ValidateConfig(merged, existing)
        THEN [ret |-> Raised("ValueError"), merged |-> merged]
        ELSE [ret |-> Returned(merged), merged |-> merged]

----------------------------------------------------------------------------
(* SpecConfig: a configuration file, a platform and a command line are     *)
(* chosen, and the ConfigManager is constructed for them.                  *)

PyNoClean == Lit(<< Entry("clean", Bool(FALSE)) >>)

\* the top-level keys of a configuration file outside the platform sections
GlobalSections ==
    { Lit(<< Entry("name", n), Entry("entry", e), Entry("windowed", o[1]),
             Entry("pyinstaller", o[2]) >>) :
        n \in {Absent, None, Str(""), Str("A")},
        e \in {Absent, Str("app.py")},
        o \in {<<Absent, Absent>>, <<Bool(FALSE), PyNoClean>>} }

\* what the file holds for linux under platforms
LinuxSections ==
    { Absent, EmptyDict,
      Lit(<< Entry("name", Str("L")) >>),
      Lit(<< Entry("name", Str("")), Entry("onefile", Bool(TRUE)) >>),
      Lit(<< Entry("pyinstaller", Lit(<< Entry("noconfirm", Bool(FALSE)) >>)) >>),
      Lit(<< Entry("platforms", Lit(<< Entry("deb", EmptyDict) >>)) >>) }

\* what the file holds under the legacy key platform_specific
LegacySections ==
    { Absent, Lit(<< Entry("linux", Lit(<< Entry("name", Str("Legacy")) >>)) >>) }

RawConfigs ==
    { Update(g, Lit(<< Entry("platforms",
                             IF l = Absent THEN Absent ELSE Lit(<< Entry("linux", l) >>)),
                       Entry("platform_specific", ps) >>)) :
        g \in GlobalSections, l \in LinuxSections, ps \in LegacySections }

\* the configuration file: none given, given but missing or not JSON, or
\* holding a raw configuration
ConfigFiles ==
    { [path |-> None, dk |-> NoDisk],
      [path |-> ConfigPath, dk |-> NoDisk],
      [path |-> ConfigPath, dk |-> [state |-> "corrupt", doc |-> EmptyDict]] }
    \cup { [path |-> ConfigPath, dk |-> DiskOk(raw)] : raw \in RawConfigs }

EntryFiles == {"main.py", "app.py"}

\* the command-line arguments a construction can be given
ArgChoices ==
    { Entry("name", None), Entry("name", Str("")), Entry("name", Str("B")),
      Entry("entry", Str("")), Entry("entry", Str("app.py")),
      Entry("onefile", Bool(FALSE)), Entry("windowed", Bool(TRUE)) }

CurrentPlatforms == {Str("linux"), Str("macos")}

\* disk is the configuration file, cfgA the config_path argument, cfgB the
\* args argument, scope the detected platform, fsA the entry files that exist
CfgInit ==
    /\ store = [m \in Projects |-> EmptyProject]
    /\ persisted = [m \in Projects |-> {}]
    /\ fsys = DefaultFs
    /\ calls = 0
    /\ faults = 0
    /\ last = NoLast
    /\ first = [m \in Projects |-> NoCall]
    /\ \E f \in ConfigFiles : cfgA = f.path /\ disk = f.dk
    /\ cfgB = EmptyDict
    /\ scope \in CurrentPlatforms
    /\ fsA \in {EntryFiles, {"main.py"}}
    /\ edits = 0
    /\ pc = "start"
    /\ hres = None
    /\ NoProcs

\* one more argument on the command line
CfgAddArg(e) ==
    /\ pc = "start" /\ edits < MaxArgs
    /\ ~Has(cfgB, e.k)
    /\ cfgB' = Put(cfgB, e.k, e.v)
    /\ edits' = edits + 1
    /\ UNCHANGED <<store, fsys, cfgA, scope, fsA, pc, hres, hframe>>

\* ConfigManager(config_path, args)
CfgConstruct ==
    /\ pc = "start"
    /\ pc' = "done"
    /\ hres' = Construct(cfgA, disk, cfgB, scope, fsA)
    /\ UNCHANGED <<store, fsys, cfgA, cfgB, scope, fsA, edits, hframe>>

GetKeys == {"platforms", "platform_specific", "pyinstaller.clean"}

\* get(key, default) on the constructed ConfigManager
CfgGet(key, default) ==
    /\ pc = "done" /\ ~hres.ret.raised
    /\ pc' = "got"
    /\ last' = [NoLast EXCEPT !.op = "get", !.platform = Str(key), !.config = default,
                              !.ret = ConfigGet(hres.merged, key, default)]
    /\ UNCHANGED <<store, fsys, cfgA, cfgB, scope, fsA, edits, hres,
                   disk, calls, faults, persisted, first, procs, events>>

CfgNext ==
    \/ \E e \in ArgChoices : CfgAddArg(e)
    \/ CfgConstruct
    \/ \E key \in GetKeys, default \in {None, EmptyDict} : CfgGet(key, default)

SpecConfig == CfgInit /\ [][CfgNext]_vars

----------------------------------------------------------------------------
(* SpecSteps: pre_generate_all_platform_configs taken statement by         *)
(* statement.  procs[1] holds the position of the call and its locals,     *)
(* events the steps taken so far in the current call.                      *)

Idle ==
    [pc |-> "idle", config |-> EmptyDict, path |-> None, cfg |-> EmptyDict, i |-> 1,
     app_id |-> None, results |-> NoResults, plan |-> NoFault,
     pr0 |-> EmptyProject, dk0 |-> NoDisk]

Event(ev, p, ok) == [ev |-> ev, p |-> p, ok |-> ok]

StepInit ==
    /\ \E pr \in StartProjects :
          /\ store = [m \in Projects |-> IF m = 1 THEN pr ELSE EmptyProject]
          /\ persisted = [m \in Projects |-> IF m = 1 THEN IdsOf(pr) ELSE {}]
    /\ disk \in {NoDisk, DiskOk(AllDeb)}
    /\ fsys = DefaultFs
    /\ calls = 0
    /\ faults = 0
    /\ last = NoLast
    /\ first = [m \in Projects |-> NoCall]
    /\ cfgA = EmptyDict /\ cfgB = EmptyDict /\ scope = None /\ fsA = DefaultFs
    /\ edits = 0 /\ pc = "off" /\ hres = None
    /\ procs = [x \in {1} |-> Idle]
    /\ events = <<>>

sframe == <<fsys, cfgA, cfgB, scope, fsA, edits, pc, hres, first>>

\* the call is made
PgCall(config, path) ==
    /\ procs[1].pc \in {"idle", "done"} /\ calls < MaxRuns
    /\ procs' = [procs EXCEPT ![1] =
                    [Idle EXCEPT !.pc = "app_id", !.config = config, !.path = path,
                                 !.cfg = config, !.pr0 = store[1], !.dk0 = disk]]
    /\ events' = <<>>
    /\ calls' = calls + 1
    /\ UNCHANGED <<store, disk, faults, last, persisted, sframe>>

\* app_id = self.get_or_generate_app_id(config)
PgAppId ==
    /\ procs[1].pc = "app_id"
    /\ \E a \in {GetOrGenerateAppId(store[1], procs[1].config)} :
          /\ store' = [store EXCEPT ![1] = a.pr]
          /\ persisted' = [persisted EXCEPT ![1] = @ \cup IdsOf(a.pr)]
          /\ procs' = [procs EXCEPT ![1].app_id = a.id,
                                    ![1].pc = IF ~Truthy(ConfigAppId(procs[1].config))
                                                 /\ Truthy(procs[1].path)
                                              THEN "write_back" ELSE "platform"]
    /\ events' = Append(events, Event("app_id", "", TRUE))
    /\ UNCHANGED <<disk, calls, faults, last, sframe>>

\* update_build_config_with_app_id and the reload of the configuration
PgWriteBack ==
    /\ procs[1].pc = "write_back"
    /\ \E upd \in {WriteBack(disk, procs[1].config, procs[1].path, procs[1].app_id)} :
          /\ disk' = upd.dk
          /\ procs' = [procs EXCEPT ![1].cfg = EffectiveConfig(procs[1].config,
                                                               procs[1].path, upd),
                                    ![1].pc = "platform"]
          /\ events' = Append(events, Event("write_back", "", upd.ok))
    /\ UNCHANGED <<store, calls, faults, last, persisted, sframe>>

\* the else branch of the loop body: the platform is not in the configuration
PgSkip ==
    /\ procs[1].pc = "platform" /\ procs[1].i <= Len(PlatformNames)
    /\ ~Enabled(procs[1].cfg, PlatformNames[procs[1].i])
    /\ procs' = [procs EXCEPT ![1].results = SetResult(@, PlatformNames[procs[1].i], "skipped"),
                              ![1].i = @ + 1]
    /\ events' = Append(events, Event("skip", PlatformNames[procs[1].i], TRUE))
    /\ UNCHANGED <<store, disk, calls, faults, last, persisted, sframe>>

\* success = generator(config, platform); the generator's fault-th write fails
PgGenerate(fault) ==
    /\ procs[1].pc = "platform" /\ procs[1].i <= Len(PlatformNames)
    /\ Enabled(procs[1].cfg, PlatformNames[procs[1].i])
    /\ fault <= Len(GeneratorWrites(procs[1].cfg, PlatformNames[procs[1].i]))
    /\ fault > 0 => faults < MaxFaults
    /\ faults' = IF fault > 0 THEN faults + 1 ELSE faults
    /\ \E platform \in {PlatformNames[procs[1].i]} :
       \E g \in {Generate(store[1], procs[1].cfg, platform, fault, fsys)} :
          /\ store' = [store EXCEPT ![1] = g.pr]
          /\ procs' = [procs EXCEPT
                          ![1].plan = [@ EXCEPT ![platform] = fault],
                          ![1].results = IF g.success THEN @
                                         ELSE SetResult(@, platform, "failure"),
                          ![1].i = IF g.success THEN @ ELSE @ + 1,
                          ![1].pc = IF g.success THEN "save_hash" ELSE "platform"]
          /\ events' = Append(events, Event("generate", platform, g.success))
    /\ UNCHANGED <<disk, calls, last, persisted, sframe>>

\* self.save_config_hash(self.calculate_config_hash(config, platform), platform)
PgSaveHash ==
    /\ procs[1].pc = "save_hash"
    /\ \E platform \in {PlatformNames[procs[1].i]} :
          /\ store' = [store EXCEPT ![1] =
                          SaveConfigHash(@, CalculateConfigHash(procs[1].cfg, Str(platform), fsys),
                                         Str(platform))]
          /\ procs' = [procs EXCEPT ![1].results = SetResult(@, platform, "success"),
                                    ![1].i = @ + 1,
                                    ![1].pc = "platform"]
          /\ events' = Append(events, Event("save_hash", platform, TRUE))
    /\ UNCHANGED <<disk, calls, faults, last, persisted, sframe>>

\* self.save_config_hash(self.calculate_config_hash(config)); return results
PgSaveGlobal ==
    /\ procs[1].pc = "platform" /\ procs[1].i > Len(PlatformNames)
    /\ store' = [store EXCEPT ![1] =
                    SaveConfigHash(@, CalculateConfigHash(procs[1].cfg, None, fsys), None)]
    /\ procs' = [procs EXCEPT ![1].pc = "done"]
    /\ events' = Append(events, Event("save_hash", "global", TRUE))
    /\ last' = [op |-> "pre_generate_all_platform_configs", m |-> 1,
                config |-> procs[1].config, platform |-> None, path |-> procs[1].path,
                disk |-> procs[1].dk0,
                ret |-> [results |-> procs[1].results, app_id |-> procs[1].app_id,
                         config |-> procs[1].cfg, plan |-> procs[1].plan]]
    /\ UNCHANGED <<disk, calls, faults, persisted, sframe>>

StepNext ==
    \/ \E c \in {Demo, DemoX, AllDeb, LinuxOnly}, path \in {None, ConfigPath} : PgCall(c, path)
    \/ PgAppId
    \/ PgWriteBack
    \/ PgSkip
    \/ \E fault \in 0..3 : PgGenerate(fault)
    \/ PgSaveHash
    \/ PgSaveGlobal

SpecSteps == StepInit /\ [][StepNext]_vars

\* a call taken step by step leaves what the call taken at once leaves
StepsAgreeWithCall ==
    procs[1].pc = "done" =>
        \E r \in {PreGenerateAllPlatformConfigs(procs[1].pr0, procs[1].dk0, procs[1].config,
                                                procs[1].path, procs[1].plan, fsys)} :
            /\ r.pr = store[1]
            /\ r.dk = disk
            /\ r.results = last.ret.results
            /\ r.app_id = last.ret.app_id

----------------------------------------------------------------------------
(* SpecProcs: build processes on the same project directory, each running  *)
(* save_config_hash statement by statement: load_metadata, the update of   *)
(* the loaded record, and save_metadata, which opens metadata.json for     *)
(* writing (the file is empty from then on) and then dumps the record.     *)
(* A process can be interrupted between any two statements.                *)

Builders == {1, 2}

\* metadata.json as a file: is it there, does it parse, what does it hold
MetaFile(pr) ==
    [exists |-> pr.meta_exists, corrupt |-> pr.meta_corrupt, metadata |-> pr.metadata]

Resting ==
    [pc |-> "idle", platform |-> None, config_hash |-> None, metadata |-> DefaultMetadata,
     before |-> MetaFile(EmptyProject)]

Step(x, ev) == [proc |-> x, ev |-> ev]

ProcInit ==
    /\ \E pr \in StartProjects :
          /\ store = [m \in Projects |-> IF m = 1 THEN pr ELSE EmptyProject]
          /\ persisted = [m \in Projects |-> IF m = 1 THEN IdsOf(pr) ELSE {}]
    /\ disk = NoDisk
    /\ fsys = DefaultFs
    /\ calls = 0
    /\ faults = 0
    /\ last = NoLast
    /\ first = [m \in Projects |-> NoCall]
    /\ cfgA = EmptyDict /\ cfgB = EmptyDict /\ scope = None /\ fsA = DefaultFs
    /\ edits = 0 /\ pc = "off" /\ hres = None
    /\ procs = [x \in Builders |-> Resting]
    /\ events = <<>>

pframe == <<disk, fsys, faults, last, persisted, cfgA, cfgB, scope, fsA, edits, pc, hres, first>>

\* process x calls save_config_hash(calculate_config_hash(config, platform), platform)
ScCall(x, config, platform) ==
    /\ procs[x].pc = "idle" /\ calls < MaxSaves
    /\ procs' = [procs EXCEPT ![x] =
                    [Resting EXCEPT !.pc = "load", !.platform = platform,
                                    !.config_hash = CalculateConfigHash(config, platform, fsys),
                                    !.before = MetaFile(store[1])]]
    /\ events' = Append(events, Step(x, "call"))
    /\ calls' = calls + 1
    /\ UNCHANGED <<store, pframe>>

\* the load that ignores what the file holds
ScLoadDefault(x) ==
    /\ procs[x].pc = "load"
    /\ procs' = [procs EXCEPT
                    ![x].metadata =
                        [(IF Truthy(procs[x].platform)
                          THEN [DefaultMetadata EXCEPT !.platform_hashes =
                                    SetHash(@, procs[x].platform.s, procs[x].config_hash)]
                          ELSE [DefaultMetadata EXCEPT !.config_hash = procs[x].config_hash])
                         EXCEPT !.last_updated = Now],
                    ![x].pc = "open"]
    /\ events' = Append(events, Step(x, "load"))
    /\ UNCHANGED <<store, calls, pframe>>

\* metadata = self.load_metadata(), the hash and the timestamp set in it
ScLoad(x) ==
    /\ procs[x].pc = "load"
    /\ procs' = [procs EXCEPT
                    ![x].metadata =
                        [(IF Truthy(procs[x].platform)
                          THEN [LoadMetadata(store[1]) EXCEPT !.platform_hashes =
                                    SetHash(@, procs[x].platform.s, procs[x].config_hash)]
                          ELSE [LoadMetadata(store[1]) EXCEPT
                                    !.config_hash = procs[x].config_hash])
                         EXCEPT !.last_updated = Now],
                    ![x].pc = "open"]
    /\ events' = Append(events, Step(x, "load"))
    /\ UNCHANGED <<store, calls, pframe>>

\* save_metadata: open(self.metadata_file, "w") leaves an empty file
ScOpen(x) ==
    /\ procs[x].pc = "open"
    /\ store' = [store EXCEPT ![1].meta_exists = TRUE, ![1].meta_corrupt = TRUE]
    /\ procs' = [procs EXCEPT ![x].pc = "dump"]
    /\ events' = Append(events, Step(x, "open"))
    /\ UNCHANGED <<calls, pframe>>

\* save_metadata: json.dump(metadata, f) and the end of the with block
ScDump(x) ==
    /\ procs[x].pc = "dump"
    /\ store' = [store EXCEPT ![1] = SaveMetadata(@, procs[x].metadata)]
    /\ procs' = [procs EXCEPT ![x].pc = "done"]
    /\ events' = Append(events, Step(x, "dump"))
    /\ UNCHANGED <<calls, pframe>>

\* the process is interrupted (killed, power loss) inside the call
ScInterrupt(x) ==
    /\ procs[x].pc \in {"load", "open", "dump"}
    /\ \A y \in Builders \ {x} : procs[y].pc # "killed"
    /\ procs' = [procs EXCEPT ![x].pc = "killed"]
    /\ events' = Append(events, Step(x, "interrupt"))
    /\ UNCHANGED <<store, calls, pframe>>

ProcNext ==
    \/ \E x \in Builders, c \in {Demo, DemoV2}, p \in {Str("windows"), Str("macos"), None} :
          ScCall(x, c, p)
    \/ \E x \in Builders : ScLoad(x)
    \/ \E x \in Builders : ScOpen(x)
    \/ \E x \in Builders : ScDump(x)
    \/ \E x \in Builders : ScInterrupt(x)

SpecProcs == ProcInit /\ [][ProcNext]_vars

----------------------------------------------------------------------------
(* Claims checked under Spec *)

CachedFile(p, t) == store[1].cache[GetCachedFilePath(p, t)]

IsPreGenerate(l) == l.op = "pre_generate_all_platform_configs"

\* C2: from an empty cache and a config that enables windows and has no app
\* id, should_pre_generate_all_configs is true; after the (fault-free)
\* pre-generation the cached windows hash is the windows fingerprint of the
\* caller's config and should_pre_generate_all_configs(config) is false.
C2_EndToEnd ==
    /\ calls = 0 =>
          \A c \in Configs :
              Enabled(c, "windows") /\ ~Truthy(ConfigAppId(c)) =>
                  ShouldPreGenerateAllConfigs(store[1], c, fsys)
    /\ ( /\ calls = 1 /\ IsPreGenerate(last)
         /\ Enabled(last.config, "windows") /\ ~Truthy(ConfigAppId(last.config))
         /\ last.ret.plan = NoFault )
       => /\ LoadCachedHash(store[1], Str("windows")) # None
          /\ LoadCachedHash(store[1], Str("windows"))
                = CalculateConfigHash(last.config, Str("windows"), fsys)
          /\ ~ShouldPreGenerateAllConfigs(store[1], last.config, fsys)

\* the generator of p failed in the call recorded in l
GeneratorFailed(l, p) ==
    /\ Enabled(l.ret.config, p)
    /\ l.ret.plan[p] > 0
    /\ l.ret.plan[p] <= Len(GeneratorWrites(l.ret.config, p))

----------------------------------------------------------------------------
(* Claims checked under SpecAppId *)

IsGetAppId(l) == l.op = "get_or_generate_app_id"

\* the id held by the metadata of project m
MetaAppId(pr) == LoadMetadata(pr).app_id

\* C5 (as stated): once an id has been persisted in the metadata of a
\* project, every later get_or_generate_app_id with a config without an
\* explicit app id returns that same id, whatever save_config_hash,
\* clear_cache, should_* and pre_generate_all_platform_configs calls were
\* interleaved (project 1, whose get_or_generate_app_id calls never carry an
\* explicit id).
C5_PersistedIdStable ==
    (IsGetAppId(last) /\ last.m = 1 /\ ~Truthy(ConfigAppId(last.config)))
        => persisted[1] \subseteq {last.ret}

\* C5 (amended): once an id is persisted, a call changes it only when it is a
\* get_or_generate_app_id or pre_generate_all_platform_configs call whose
\* config carries a different explicit app id, which then becomes the
\* persisted id; save_config_hash, clear_cache, the should_* queries and
\* calls without an explicit id leave it alone; and get_or_generate_app_id
\* with a config without an explicit id returns the id persisted at that
\* moment.
C5_PersistedIdChangesOnlyByExplicitId ==
    [][ \A m \in Projects :
          (calls' = calls + 1 /\ Truthy(MetaAppId(store[m]))) =>
             /\ MetaAppId(store'[m]) # MetaAppId(store[m]) =>
                   /\ last'.m = m
                   /\ IsGetAppId(last') \/ IsPreGenerate(last')
                   /\ Truthy(ConfigAppId(last'.config))
                   /\ MetaAppId(store'[m]) = ConfigAppId(last'.config)
             /\ (IsGetAppId(last') /\ last'.m = m /\ ~Truthy(ConfigAppId(last'.config)))
                   => last'.ret = MetaAppId(store[m])
      ]_vars

\* get_or_generate_app_id called a second time on project 1 with a config
\* that differs from the first one in unrelated fields, after a clear_cache
\* or save_config_hash, returning the id of the first call
C5_Witness ==
    /\ IsGetAppId(last) /\ last.m = 1 /\ calls = 3
    /\ first[1].called /\ first[1].fresh
    /\ first[1].config # last.config
    /\ last.ret = first[1].ret
    /\ persisted[1] = {last.ret}

\* C6: get_or_generate_app_id returns (1) the config's explicit app id when it
\* has one, and then metadata.app_id is set to it; (2) otherwise the id held
\* by the metadata, which is left as it is; (3) otherwise the id derived from
\* the config's name ("MyApp" without a name), which is then persisted.
C6_AppIdPrecedence ==
    [][ (calls' = calls + 1 /\ IsGetAppId(last')) =>
          LET m == last'.m
              c == last'.config
          IN  IF Truthy(ConfigAppId(c))
              THEN /\ last'.ret = ConfigAppId(c)
                   /\ store'[m].meta_exists
                   /\ store'[m].metadata.app_id = ConfigAppId(c)
              ELSE IF store[m].meta_exists /\ Truthy(store[m].metadata.app_id)
              THEN /\ last'.ret = store[m].metadata.app_id
                   /\ store'[m] = store[m]
              ELSE /\ last'.ret = GenerateAppId(IF Has(c, "name") THEN Get(c, "name", None)
                                                ELSE Str("MyApp"))
                   /\ store'[m].meta_exists
                   /\ store'[m].metadata.app_id = last'.ret
      ]_vars

\* the three cases in one run of project 2: an id derived from the name, then
\* an explicit id that replaces it, then that id returned from the metadata
C6_Witness ==
    /\ IsGetAppId(last) /\ last.m = 2 /\ calls = 3
    /\ ~Truthy(ConfigAppId(last.config))
    /\ first[2].fresh /\ ~Truthy(ConfigAppId(first[2].config))
    /\ Cardinality(persisted[2]) = 2
    /\ last.ret \in persisted[2] \ {first[2].ret}
    /\ last.ret # GenerateAppId(AppName(last.config))

SameName(c1, c2) ==
    /\ Has(c1, "name") <=> Has(c2, "name")
    /\ Has(c1, "name") => Get(c1, "name", None) = Get(c2, "name", None)

\* C7: the first get_or_generate_app_id calls on two projects with no
\* persisted id, with configs that have the same name and no explicit app
\* id, return the same id.
C7_SameNameSameId ==
    \A m1, m2 \in Projects :
        ( /\ first[m1].called /\ first[m1].fresh
          /\ first[m2].called /\ first[m2].fresh
          /\ ~Truthy(ConfigAppId(first[m1].config))
          /\ ~Truthy(ConfigAppId(first[m2].config))
          /\ SameName(first[m1].config, first[m2].config) )
        => first[m1].ret = first[m2].ret

\* two projects, two different configs of the same name, one id
C7_Witness ==
    /\ first[1].called /\ first[1].fresh
    /\ first[2].called /\ first[2].fresh
    /\ first[1].config # first[2].config
    /\ ~Truthy(ConfigAppId(first[1].config)) /\ ~Truthy(ConfigAppId(first[2].config))
    /\ SameName(first[1].config, first[2].config)
    /\ first[1].ret = first[2].ret
    /\ Truthy(first[1].ret)

----------------------------------------------------------------------------
(* Claims checked under SpecHash *)

Checked == pc = "checked"

\* equality of two JSON values as mappings: the order in which the keys were
\* inserted does not count
RECURSIVE DictEq(_, _)
DictEq(a, b) ==
    IF a.t = "dict" /\ b.t = "dict"
    THEN /\ Keys(a) = Keys(b)
         /\ \A key \in Keys(a) : DictEq(Get(a, key, None), Get(b, key, None))
    ELSE a = b

RECURSIVE GetPath(_, _)
GetPath(dct, path) ==
    IF path = <<>> THEN dct
    ELSE IF dct.t = "dict" /\ Has(dct, Head(path))
         THEN GetPath(Get(dct, Head(path), Absent), Tail(path))
         ELSE Absent

\* C3: should_regenerate_config(C, p) is true exactly when no hash is cached
\* for scope p or the cached hash differs from calculate_config_hash(C, p);
\* right after saving the fingerprint of C for p it is false for C.
C3_RegenerateIffNoneOrDiffers ==
    Checked =>
        \A q \in Scopes :
            LET isCached == hres.saved /\ q = scope
            IN  /\ hres.regen[q] <=> (~isCached \/ hres.hashA[q] # hres.hashB[q])
                /\ (isCached /\ edits = 0) => ~hres.regen[q]
                /\ isCached <=> hres.cached[q] # None

\* a platform hash was saved, the configuration was then edited without a
\* change of that platform's fingerprint, and the answer is false for the
\* saved scope and true for a scope without a cached hash
C3_Witness ==
    /\ Checked /\ hres.saved /\ scope = Str("linux")
    /\ cfgA # cfgB
    /\ ~hres.regen[scope]
    /\ hres.regen[Str("macos")]
    /\ hres.hashA[Str("macos")] = hres.hashB[Str("macos")]

\* C8: for a fixed filesystem state, two configurations that are the same
\* mapping have the same calculate_config_hash in every scope, whatever the
\* insertion order of their keys and whatever the metadata held when the
\* digest was computed.
C8_HashDeterministic ==
    (Checked /\ DictEq(cfgA, cfgB) /\ fsys = fsA) =>
        /\ \A q \in Scopes : hres.hashA[q] = hres.hashB[q]
        /\ hres.saved => hres.cached[scope] = hres.hashB[scope]

\* the nested configuration with the keys of every level in reverse order
C8_Witness ==
    /\ Checked /\ hres.saved
    /\ cfgA = Full /\ cfgB # cfgA /\ DictEq(cfgA, cfgB)
    /\ cfgB.d[1].k = "platforms"
    /\ fsys = fsA
    /\ hres.hashA = hres.hashB

\* two configurations differ in the presence or the value of a top-level key
\* that is not one of the twelve excluded keys (a difference at any depth
\* below such a key is a difference of its value)
DiffersOutsideVolatile(a, b) ==
    \E key \in (Keys(a) \cup Keys(b)) \ ExcludeKeySet :
        ~( /\ Has(a, key) /\ Has(b, key)
           /\ DictEq(Get(a, key, None), Get(b, key, None)) )

ResourceFields(q) ==
    {<<"icon">>, <<"license">>} \cup
    ( CASE q = Str("windows") ->
             { <<"platforms", "windows", "inno_setup", "setup_icon">>,
               <<"platforms", "windows", "inno_setup", "license_file">> }
        [] q = Str("macos") ->
             { <<"platforms", "macos", "icon">>, <<"platforms", "macos", "info_plist">> }
        [] q = Str("linux") ->
             { <<"platforms", "linux", "deb", "icon">>,
               <<"platforms", "linux", "rpm", "icon">>,
               <<"platforms", "linux", "appimage", "icon">> }
        [] OTHER -> {} )

Referenced(config, q) ==
    {path \in Paths : \E f \in ResourceFields(q) : GetPath(config, f) = Str(path)}

\* the content of a file that is there and readable before and after changed
ContentModified(path) ==
    /\ fsA[path].exists /\ fsA[path].readable
    /\ fsys[path].exists /\ fsys[path].readable
    /\ fsA[path].content # fsys[path].content

\* C10: for an unchanged configuration, a modification of the content of a
\* (readable) resource file named by the icon, license or the platform's
\* installer icon, license, plist or per-format icon field changes
\* calculate_config_hash in every scope that references the file, and
\* should_regenerate_config is true for a scope saved before the edit.
C10_ResourceEditChangesHash ==
    (Checked /\ cfgA = cfgB) =>
        \A q \in Scopes :
            (\E path \in Referenced(cfgB, q) : ContentModified(path)) =>
                /\ hres.hashA[q] # hres.hashB[q]
                /\ (hres.saved /\ q = scope) => hres.regen[q]

\* the installer icon of windows was rewritten after the windows hash was
\* saved: the windows fingerprint changed, the global one did not
C10_Witness ==
    /\ Checked /\ hres.saved /\ scope = Str("windows")
    /\ cfgA = Full /\ cfgB = Full
    /\ fsys["a.ico"] = fsA["a.ico"]
    /\ "b.ico" \in Referenced(cfgB, scope) /\ ContentModified("b.ico")
    /\ hres.regen[scope]
    /\ hres.hashA[None] = hres.hashB[None]

\* the twelve keys that say how a build runs, not what it produces
VolatileKeys ==
    { "project_dir", "temp_dir", "dist_dir", "installer_dir", "verbose", "quiet",
      "clean", "skip_exe", "skip_installer", "parallel", "max_workers", "no_rollback" }

\* two configurations differ at most in the presence or value of top-level
\* volatile keys
SameButVolatile(a, b) ==
    \A key \in (Keys(a) \cup Keys(b)) \ VolatileKeys :
        /\ Has(a, key) /\ Has(b, key)
        /\ DictEq(Get(a, key, None), Get(b, key, None))

\* C11: two configurations that differ only in the value or presence of the
\* twelve volatile top-level keys have the same calculate_config_hash in
\* every scope (on the same files), so should_regenerate_config stays false
\* for a scope whose hash was saved before such a change.
C11_VolatileKeysIgnored ==
    /\ (Checked /\ SameButVolatile(cfgA, cfgB) /\ fsys = fsA) =>
          /\ \A q \in Scopes : hres.hashA[q] = hres.hashB[q]
          /\ hres.saved => ~hres.regen[scope]
    /\ (Checked /\ edits = 0) =>
          \A key \in VolatileKeys, q \in Scopes :
              CalculateConfigHash(Put(cfgB, key, Str("x")), q, fsys) = hres.hashB[q]

\* the verbosity flag was added to the configuration after its hash was saved
C11_Witness ==
    /\ Checked /\ hres.saved /\ fsys = fsA
    /\ ~Has(cfgA, "verbose") /\ Get(cfgB, "verbose", Absent) = Str("true")
    /\ SameButVolatile(cfgA, cfgB)
    /\ ~hres.regen[scope]
    /\ hres.hashA = hres.hashB

----------------------------------------------------------------------------
(* Claims checked under SpecMeta *)

IsOp(l, op) == l.op = op

\* C12: after save_config_hash(d, p), load_cached_hash(p) returns d; the
\* cached hash of every other scope (the other platforms and the global hash,
\* or every platform when the global hash is saved), the persisted app id and
\* the cached files are what they were before the call.
C12_SaveHashFrame ==
    [][ (calls' = calls + 1 /\ IsOp(last', "save_config_hash")) =>
          LET m == last'.m
              p == last'.platform
          IN  /\ LoadCachedHash(store'[m], p) = CalculateConfigHash(last'.config, p, fsys)
              /\ \A q \in Scopes \ {p} :
                    LoadCachedHash(store'[m], q) = LoadCachedHash(store[m], q)
              /\ LoadMetadata(store'[m]).app_id = LoadMetadata(store[m]).app_id
              /\ store'[m].cache = store[m].cache
      ]_vars

\* the macOS hash was replaced while windows, linux and the global scope held
\* other hashes and an app id was persisted
C12_Witness ==
    /\ IsOp(last, "save_config_hash") /\ last.platform = Str("macos")
    /\ LoadCachedHash(store[1], Str("macos"))
          = CalculateConfigHash(last.config, Str("macos"), fsys)
    /\ \A q \in Scopes : LoadCachedHash(store[1], q) # None
    /\ LoadCachedHash(store[1], Str("windows")) # LoadCachedHash(store[1], Str("macos"))
    /\ LoadCachedHash(store[1], Str("macos")) # Pregenerated.metadata.platform_hashes["macos"]
    /\ LoadCachedHash(store[1], None) = Pregenerated.metadata.config_hash
    /\ Truthy(LoadMetadata(store[1]).app_id)

\* platform p has a section in the platforms mapping of config
HasSection(config, p) ==
    \E i \in 1..Len(Get(config, "platforms", EmptyDict).d) :
        Get(config, "platforms", EmptyDict).d[i].k = p

\* C13: should_pre_generate_all_configs(C) is true if and only if the global
\* fingerprint of C differs from the cached global hash or the fingerprint of
\* an enabled platform differs from that platform's cached hash; removing the
\* cached hash of a platform that is not enabled in C does not change the
\* result.
C13_ShouldPreGenerateIff ==
    IsOp(last, "should_pre_generate_all_configs") =>
        LET c == last.config
            pr == store[last.m]
        IN  /\ last.ret <=>
                 \/ CalculateConfigHash(c, None, fsys) # LoadCachedHash(pr, None)
                 \/ \E p \in Platforms :
                       /\ HasSection(c, p)
                       /\ CalculateConfigHash(c, Str(p), fsys) # LoadCachedHash(pr, Str(p))
            /\ \A q \in Platforms :
                  ~HasSection(c, q) =>
                      ShouldPreGenerateAllConfigs(
                          [pr EXCEPT !.metadata.platform_hashes = DelHash(@, q)], c, fsys)
                        = last.ret

\* the answer is false although macOS, which the config does not enable,
\* has a cached hash that is not the config's macOS fingerprint
C13_Witness ==
    /\ IsOp(last, "should_pre_generate_all_configs") /\ last.m = 1
    /\ last.ret = FALSE
    /\ ~HasSection(last.config, "macos")
    /\ LoadCachedHash(store[1], Str("macos")) # None
    /\ LoadCachedHash(store[1], Str("macos"))
          # CalculateConfigHash(last.config, Str("macos"), fsys)

\* the operations of the model whose record holds an outcome; the other
\* operations have no raising path on the states of the model
OutcomeOps ==
    {"load_metadata", "load_cached_hash", "get_cached_file_path", "save_cached_file",
     "load_cached_file", "update_build_config_with_app_id"}

CallRaised(l) == IF l.op \in OutcomeOps THEN l.ret.raised ELSE FALSE

\* C16: when metadata.json exists and cannot be parsed, load_metadata,
\* load_cached_hash, save_config_hash and pre_generate_all_platform_configs
\* end in an error instead of going on with an empty record.
C16_MetadataErrorsPropagate ==
    [][ ( /\ calls' = calls + 1
          /\ last'.op \in {"load_metadata", "load_cached_hash", "save_config_hash",
                           "pre_generate_all_platform_configs"}
          /\ store[last'.m].meta_corrupt )
        => CallRaised(last')
      ]_vars

----------------------------------------------------------------------------
(* Claims checked under SpecFiles *)

ClearedAll(l) == IsOp(l, "clear_cache") /\ ~Truthy(l.platform)
ClearedOne(l) == IsOp(l, "clear_cache") /\ Truthy(l.platform)

\* C14: clear_cache() without a platform leaves no cached generated file for
\* any platform, leaves the global hash and every platform hash absent, and
\* leaves metadata.app_id as it was.
C14_ClearAllFrame ==
    [][ (calls' = calls + 1 /\ ClearedAll(last')) =>
          LET m == last'.m
          IN  /\ \A p \in Platforms : \A t \in DOMAIN FilenameMap[p] :
                    LoadCachedFile(store'[m], p, t) = None
              /\ \A q \in Scopes : LoadCachedHash(store'[m], q) = None
              /\ LoadMetadata(store'[m]).app_id = LoadMetadata(store[m]).app_id
      ]_vars

\* the pre-generated project (files, four hashes and an app id) right after
\* clear_cache(): the app id is still there
C14_Witness ==
    /\ ClearedAll(last) /\ calls = 1
    /\ Truthy(LoadMetadata(store[1]).app_id)
    /\ LoadMetadata(store[1]).app_id = LoadMetadata(Pregenerated).app_id
    /\ \A f \in CachePaths : ~store[1].cache[f].exists
    /\ store[1].metadata.platform_hashes = NoHashes

\* C15: clear_cache(p) removes p's cached hash and every cached generated
\* file of p (load_cached_file(p, t) is absent for every file type supported
\* for p) and leaves the global hash, the app id and the hashes and files of
\* every other platform as they were.
C15_ClearPlatformFrame ==
    [][ (calls' = calls + 1 /\ ClearedOne(last')) =>
          LET m == last'.m
              p == last'.platform.s
          IN  /\ LoadCachedHash(store'[m], Str(p)) = None
              /\ \A t \in DOMAIN FilenameMap[p] : LoadCachedFile(store'[m], p, t) = None
              /\ \A q \in Scopes \ {Str(p)} :
                    LoadCachedHash(store'[m], q) = LoadCachedHash(store[m], q)
              /\ LoadMetadata(store'[m]).app_id = LoadMetadata(store[m]).app_id
              /\ \A q \in Platforms \ {p} : \A t \in DOMAIN FilenameMap[q] :
                    LoadCachedFile(store'[m], q, t) = LoadCachedFile(store[m], q, t)
      ]_vars

IsFileOp(l) == l.op \in {"get_cached_file_path", "save_cached_file", "load_cached_file"}

\* the pairs the specification lists as supported
SupportedPairs ==
    { <<"windows", "iss">>, <<"linux", "control">>, <<"linux", "spec">>,
      <<"linux", "desktop">>, <<"macos", "plist">>, <<"macos", "dmg_config">>,
      <<"macos", "pkg_config">> }

\* C19: get_cached_file_path, save_cached_file and load_cached_file given a
\* (platform, file_type) pair outside the supported set end in an error and
\* leave cache and metadata unchanged; get_cached_file_path of a pair inside
\* the set returns a path under cache/<platform>/.
C19_UnknownFileTypeIsError ==
    [][ (calls' = calls + 1 /\ IsFileOp(last')) =>
          IF <<last'.platform.s, last'.file_type>> \in SupportedPairs
          THEN /\ ~last'.ret.raised
               /\ IsOp(last', "get_cached_file_path") =>
                     last'.ret.val[1] = last'.platform.s
          ELSE /\ last'.ret.raised
               /\ store' = store
      ]_vars

----------------------------------------------------------------------------
(* Claims checked under SpecDisk *)

AppIdPath == <<"platforms", "windows", "inno_setup", "app_id">>

\* new is old with the value at path replaced or added: the mappings along
\* the path keep every other key with its value, a missing one is created
\* with nothing else in it
RECURSIVE PreservedBut(_, _, _)
PreservedBut(old, new, path) ==
    IF path = <<>> THEN TRUE
    ELSE /\ old.t = "dict" /\ new.t = "dict"
         /\ Keys(new) = Keys(old) \cup {Head(path)}
         /\ \A key \in Keys(old) \ {Head(path)} : Get(new, key, Absent) = Get(old, key, Absent)
         /\ PreservedBut(IF Len(path) > 1 THEN Get(old, Head(path), EmptyDict)
                         ELSE EmptyDict,
                         IF Len(path) > 1 THEN Get(new, Head(path), Absent) ELSE EmptyDict,
                         Tail(path))

\* C20: update_build_config_with_app_id never raises; when the file cannot be
\* read, parsed or written it returns False; when it returns True the file
\* holds the stored document with platforms.windows.inno_setup.app_id set to
\* the id, missing sections created empty and everything else preserved.
C20_UpdateBuildConfig ==
    IsOp(last, "update_build_config_with_app_id") =>
        /\ ~last.ret.raised
        /\ last.disk.state # "ok" => last.ret.val = FALSE
        /\ last.ret.val = TRUE =>
              /\ disk.state = "ok"
              /\ GetPath(disk.doc, AppIdPath) = last.app_id
              /\ PreservedBut(last.disk.doc, disk.doc, AppIdPath)

\* the id was added to an inno_setup section that held another key, next to
\* another installer section and another platform
C20_Witness ==
    /\ IsOp(last, "update_build_config_with_app_id") /\ last.ret.val = TRUE
    /\ GetPath(last.disk.doc, AppIdPath) = Absent
    /\ GetPath(disk.doc, <<"platforms", "windows", "inno_setup", "setup_icon">>) = Str("a.ico")
    /\ GetPath(disk.doc, <<"platforms", "macos">>) = EmptyDict
    /\ GetPath(disk.doc, AppIdPath) = last.app_id
    /\ disk.doc # last.disk.doc

----------------------------------------------------------------------------
(* Claims checked under SpecConfig *)

Constructed == pc = "done" /\ hres.merged # Absent

\* the raw configuration the construction loaded
RawConfig == IF Truthy(cfgA) THEN disk.doc ELSE EmptyDict

\* the four sources, highest precedence first; an argument whose value is
\* None is not defined
Sources ==
    << Dict(SelectSeq(cfgB.d, LAMBDA e : e.v # None)),
       GetPlatformConfig(RawConfig, scope),
       GlobalConfig(RawConfig),
       DefaultConfig >>

SourceKeys == UNION {Keys(Sources[i]) : i \in 1..4}

\* the value of the highest-precedence source that defines the key
Winner(key) ==
    Get(Sources[CHOOSE i \in 1..4 :
                    /\ Has(Sources[i], key)
                    /\ \A j \in 1..(i - 1) : ~Has(Sources[j], key)],
        key, Absent)

\* the keys more than one source defines
SharedKeys ==
    {key \in SourceKeys : \E i, j \in 1..4 : i # j /\ Has(Sources[i], key) /\ Has(Sources[j], key)}

\* C17: every key more than one source defines has in the merged
\* configuration the whole value of the highest-precedence source that
\* defines it (argument > platform section > global section > default).
C17_HighestSourceWins ==
    Constructed =>
        \A key \in SharedKeys : Get(hres.merged, key, Absent) = Winner(key)

\* the same for the keys no argument outside _args_to_config's list defines
MappedKeysHighestSourceWins ==
    Constructed =>
        \A key \in SharedKeys :
            (Has(Sources[1], key) => \E i \in 1..Len(DirectMappings) : DirectMappings[i] = key)
            => Get(hres.merged, key, Absent) = Winner(key)

Present(v) == v.t = "str" /\ v.s # ""

\* C18: the construction returns only with a merged configuration whose name
\* and entry are present and non-empty; when one of them is missing or empty
\* it raises the validation error and hands no configuration to the caller.
C18_RequiredFields ==
    Constructed =>
        /\ ~hres.ret.raised =>
              /\ hres.ret.val = hres.merged
              /\ Present(Get(hres.merged, "name", Absent))
              /\ Present(Get(hres.merged, "entry", Absent))
        /\ ~(Present(Get(hres.merged, "name", Absent))
             /\ Present(Get(hres.merged, "entry", Absent)))
           => hres.ret = Raised("ValueError")

\* the platform section empties the name the global section gives, and the
\* construction fails in validation
C18_Witness ==
    /\ Constructed
    /\ Get(Sources[3], "name", Absent) = Str("A")
    /\ Get(Sources[2], "name", Absent) = Str("")
    /\ ~Has(Sources[1], "name")
    /\ Get(hres.merged, "entry", Absent) = Str("main.py")
    /\ hres.ret = Raised("ValueError")

----------------------------------------------------------------------------
(* Claims checked under SpecDisk: the batch on a configuration file *)

Outcomes == {"success", "failure", "skipped"}

\* C21: pre_generate_all_platform_configs reports one of three outcomes for
\* each of windows, macos and linux; the outcome is skipped exactly when the
\* platform is not enabled in the configuration the caller passed; a skipped
\* platform keeps its cached hash and its cached files.
C21_SkippedIffNotEnabled ==
    [][ (calls' = calls + 1 /\ IsPreGenerate(last')) =>
          /\ DOMAIN last'.ret.results = Platforms
          /\ \A p \in Platforms :
                /\ last'.ret.results[p] \in Outcomes
                /\ (last'.ret.results[p] = "skipped") <=> ~Enabled(last'.config, p)
                /\ last'.ret.results[p] = "skipped" =>
                      /\ LoadCachedHash(store'[1], Str(p)) = LoadCachedHash(store[1], Str(p))
                      /\ \A t \in DOMAIN FilenameMap[p] :
                            store'[1].cache[GetCachedFilePath(p, t)]
                               = store[1].cache[GetCachedFilePath(p, t)]
      ]_vars

\* the same with "enabled" read on the configuration the loop runs on (the
\* document reloaded from the file after the write-back of the id)
SkippedIffNotEnabledInEffectiveConfig ==
    [][ (calls' = calls + 1 /\ IsPreGenerate(last')) =>
          /\ DOMAIN last'.ret.results = Platforms
          /\ \A p \in Platforms :
                /\ last'.ret.results[p] \in Outcomes
                /\ (last'.ret.results[p] = "skipped") <=> ~Enabled(last'.ret.config, p)
                /\ last'.ret.results[p] = "skipped" =>
                      /\ LoadCachedHash(store'[1], Str(p)) = LoadCachedHash(store[1], Str(p))
                      /\ \A t \in DOMAIN FilenameMap[p] :
                            store'[1].cache[GetCachedFilePath(p, t)]
                               = store[1].cache[GetCachedFilePath(p, t)]
      ]_vars

----------------------------------------------------------------------------
(* Claims checked under SpecSteps *)

\* the fixed order of the platforms
PlatformRank == [windows |-> 1, macos |-> 2, linux |-> 3]

IsGenerate(e) == e.ev = "generate"
IsPlatformSave(e) == e.ev = "save_hash" /\ e.p # "global"
IsGlobalSave(e) == e.ev = "save_hash" /\ e.p = "global"

----------------------------------------------------------------------------
(* Claims checked under Spec: what a finished batch leaves *)

\* the batch recorded in l saved the hash of every platform its
\* configuration enables
AllEnabledSaved(l) ==
    /\ IsPreGenerate(l)
    /\ \A p \in Platforms : Enabled(l.ret.config, p) => l.ret.results[p] = "success"

\* the edits that change something inside the section platforms.q
EditsInside(q) ==
    {e \in EditOps : e.op \in {"set", "del"} /\ Len(e.path) >= 3
                     /\ e.path[1] = "platforms" /\ e.path[2] = q}

\* C23: after the hashes of all enabled platforms were saved for C, a
\* configuration that differs from C only inside platforms.q makes
\* should_regenerate_config true for q and leaves it false for every other
\* enabled platform.
C23_OnlyChangedPlatformRegenerates ==
    AllEnabledSaved(last) =>
        \A q \in Platforms : \A e \in EditsInside(q) :
            LET C1 == ApplyEdit(last.ret.config, e)
            IN  (Enabled(last.ret.config, q) /\ ~DictEq(C1, last.ret.config)) =>
                    /\ ShouldRegenerateConfig(store[1], C1, Str(q), fsys)
                    /\ \A p \in Platforms \ {q} :
                          Enabled(last.ret.config, p) =>
                              ~ShouldRegenerateConfig(store[1], C1, Str(p), fsys)

\* the part of it about the changed platform alone
ChangedPlatformRegenerates ==
    AllEnabledSaved(last) =>
        \A q \in Platforms : \A e \in EditsInside(q) :
            LET C1 == ApplyEdit(last.ret.config, e)
            IN  (Enabled(last.ret.config, q) /\ ~DictEq(C1, last.ret.config)) =>
                    ShouldRegenerateConfig(store[1], C1, Str(q), fsys)

\* C24: whenever the batch reports success for windows, the AppId in the
\* cached setup.iss is the id get_or_generate_app_id resolved for that run.
C24_IssCarriesResolvedId ==
    (IsPreGenerate(last) /\ last.ret.results["windows"] = "success") =>
        /\ CachedFile("windows", "iss").exists
        /\ Get(CachedFile("windows", "iss").content, "AppId", Absent) = last.ret.app_id

\* the same for the runs whose configuration carries an id or whose
\* write-back into the configuration file succeeded
IssCarriesIdOfConfig ==
    ( /\ IsPreGenerate(last) /\ last.ret.results["windows"] = "success"
      /\ Truthy(ConfigAppId(last.ret.config)) ) =>
        /\ CachedFile("windows", "iss").exists
        /\ Get(CachedFile("windows", "iss").content, "AppId", Absent) = last.ret.app_id

----------------------------------------------------------------------------
(* Claims checked under SpecProcs *)

\* process x ran alone: no other process has started a call
Alone(x) == \A y \in Builders \ {x} : procs[y].pc = "idle"

\* C25: if the process is interrupted at any point during save_metadata, the
\* metadata file found afterwards is the complete previous record or the
\* complete new record, never an empty or partially written file.
C25_InterruptedSaveLeavesARecord ==
    \A x \in Builders :
        (procs[x].pc = "killed" /\ Alone(x)) =>
            \/ MetaFile(store[1]) = procs[x].before
            \/ MetaFile(store[1]) = [exists |-> TRUE, corrupt |-> FALSE,
                                     metadata |-> procs[x].metadata]

\* the steps of a come before the steps of b
RanBefore(a, b) ==
    \A i, j \in 1..Len(events) :
        (events[i].proc = a /\ events[j].proc = b) => i < j

BothDone == \A x \in Builders : procs[x].pc = "done"

DifferentPlatforms ==
    /\ Truthy(procs[1].platform) /\ Truthy(procs[2].platform)
    /\ procs[1].platform # procs[2].platform

HashSaved(x) ==
    LoadCachedHash(store[1], procs[x].platform) = procs[x].config_hash

\* C26: two save_config_hash calls for different platforms that run one
\* after the other leave both hashes in the metadata; when their load and
\* save steps interleave, a final state with one of the hashes missing is
\* reachable (C26_Witness).
C26_SequentialKeepsBoth ==
    (BothDone /\ DifferentPlatforms /\ (RanBefore(1, 2) \/ RanBefore(2, 1))) =>
        HashSaved(1) /\ HashSaved(2)

\* both calls have returned and the hash the first process saved is gone
C26_Witness ==
    /\ BothDone /\ DifferentPlatforms
    /\ ~RanBefore(1, 2) /\ ~RanBefore(2, 1)
    /\ store[1].meta_exists /\ ~store[1].meta_corrupt
    /\ HashSaved(2) /\ LoadCachedHash(store[1], procs[1].platform) = None

----------------------------------------------------------------------------
(* Claims checked under SpecMeta: the cold cache *)

\* metadata.json is absent or cannot be parsed
Cold(pr) == ~pr.meta_exists \/ pr.meta_corrupt

ZeroRecord ==
    [version |-> Str("2.0.0"), created |-> None, app_id |-> None, config_hash |-> None,
     platform_hashes |-> <<>>, last_updated |-> Absent]

\* C27: when metadata.json is absent or cannot be parsed, load_cached_hash
\* returns None for the global scope and for every platform, load_metadata
\* returns the zero-value record, and should_regenerate_config returns true
\* for every configuration and scope.
C27_ColdCache ==
    (last.op \in ReadOnlyOps /\ Cold(store[last.m])) =>
        /\ IsOp(last, "load_cached_hash") => last.ret = Returned(None)
        /\ IsOp(last, "load_metadata") => last.ret = Returned(ZeroRecord)
        /\ IsOp(last, "should_regenerate_config") => last.ret = TRUE

\* the file that held the hashes of AllDeb was damaged, and the macOS
\* fingerprint of AllDeb, unchanged since, has to be regenerated
C27_Witness ==
    /\ IsOp(last, "should_regenerate_config")
    /\ store[1].meta_exists /\ store[1].meta_corrupt
    /\ last.config = AllDeb /\ last.platform = Str("macos")
    /\ Pregenerated.metadata.platform_hashes["macos"]
          = CalculateConfigHash(AllDeb, Str("macos"), fsys)
    /\ last.ret = TRUE

----------------------------------------------------------------------------
(* SpecReads: the caller holds one configuration object, edits it, saves   *)
(* its hash, and asks the two questions about it any number of times.      *)

ReadEdits ==
    { SetOp(<<"verbose">>, "true"), DelOp(<<"version">>),
      SetOp(<<"platforms", "macos", "icon">>, "a.ico") }

RdInit ==
    /\ \E pr \in StartProjects :
          /\ store = [m \in Projects |-> IF m = 1 THEN pr ELSE EmptyProject]
          /\ persisted = [m \in Projects |-> IF m = 1 THEN IdsOf(pr) ELSE {}]
    /\ disk = NoDisk /\ fsys = DefaultFs /\ calls = 0 /\ faults = 0
    /\ last = NoLast /\ first = [m \in Projects |-> NoCall]
    /\ cfgA \in {AllDeb, Demo}
    /\ cfgB = EmptyDict /\ scope = None /\ fsA = DefaultFs
    /\ edits = 0 /\ pc = "off" /\ hres = None
    /\ NoProcs

rframe == <<disk, fsys, faults, persisted, first, cfgB, scope, fsA, pc, hres, procs, events>>

\* the caller changes its configuration object
RdEdit(e) ==
    /\ calls < MaxReads /\ edits < MaxEdits
    /\ cfgA' = ApplyEdit(cfgA, e)
    /\ cfgA' # cfgA
    /\ edits' = edits + 1
    /\ last' = [NoLast EXCEPT !.op = "edit"]
    /\ UNCHANGED <<store, calls, rframe>>

\* save_config_hash(calculate_config_hash(config, platform), platform)
RdSaveConfigHash(platform) ==
    /\ calls < MaxReads
    /\ store' = [store EXCEPT ![1] =
                    SaveConfigHash(@, CalculateConfigHash(cfgA, platform, fsys), platform)]
    /\ calls' = calls + 1
    /\ last' = Call("save_config_hash", 1, cfgA, platform, None)
    /\ UNCHANGED <<cfgA, edits, rframe>>

\* the filter that pops the keys from the caller's dict
ConfigAfterFilterInPlace(config) == FilterConfigForHash(config)

\* the caller's dict after _filter_config_for_hash: the keys are popped
\* from a deep copy
ConfigAfterFilter(config) == config

\* should_regenerate_config(config, platform)
RdShouldRegenerate(platform) ==
    /\ calls < MaxReads
    /\ cfgA' = ConfigAfterFilter(cfgA)
    /\ calls' = calls + 1
    /\ last' = Call("should_regenerate_config", 1, cfgA, platform,
                    ShouldRegenerateConfig(store[1], cfgA, platform, fsys))
    /\ UNCHANGED <<store, edits, rframe>>

\* should_pre_generate_all_configs(config)
RdShouldPreGenerateAll ==
    /\ calls < MaxReads
    /\ cfgA' = ConfigAfterFilter(cfgA)
    /\ calls' = calls + 1
    /\ last' = Call("should_pre_generate_all_configs", 1, cfgA, None,
                    ShouldPreGenerateAllConfigs(store[1], cfgA, fsys))
    /\ UNCHANGED <<store, edits, rframe>>

ReadNext ==
    \/ \E e \in ReadEdits : RdEdit(e)
    \/ \E p \in Scopes : RdSaveConfigHash(p)
    \/ \E p \in Scopes : RdShouldRegenerate(p)
    \/ RdShouldPreGenerateAll

SpecReads == RdInit /\ [][ReadNext]_vars

----------------------------------------------------------------------------
(* Claims checked under SpecReads *)

ReadCalls == {"should_regenerate_config", "should_pre_generate_all_configs"}

----------------------------------------------------------------------------
(* Claims checked under SpecAppId: the id and the name *)

NameOf(config) == IF Has(config, "name") THEN Get(config, "name", None) ELSE Str("MyApp")

\* C29: for a config without an explicit app id, get_or_generate_app_id
\* returns the id the metadata holds whenever it holds one, whatever the
\* config's name is now, and the id derived from the name only while the
\* metadata holds none.
C29_NameCountsOnlyWhileMetadataEmpty ==
    [][ (calls' = calls + 1 /\ IsGetAppId(last') /\ ~Truthy(ConfigAppId(last'.config))) =>
          IF Truthy(MetaAppId(store[last'.m]))
          THEN last'.ret = MetaAppId(store[last'.m])
          ELSE last'.ret = GenerateAppId(NameOf(last'.config)) ]_vars

\* two project directories asked with the same configuration, which carries
\* no explicit id, answer with different ids: project 2 was fresh and derived
\* its id from the name, project 1 had persisted an id before
C29_Witness ==
    /\ IsGetAppId(last) /\ last.m = 1
    /\ first[2].called /\ first[2].fresh
    /\ last.config = first[2].config
    /\ ~Truthy(ConfigAppId(last.config))
    /\ first[2].ret = GenerateAppId(NameOf(last.config))
    /\ last.ret # first[2].ret

----------------------------------------------------------------------------
(* Claims checked under SpecConfig: the platform sections and the merge *)

\* the section of the file that belongs to the detected platform
ActiveSection ==
    LET ps == Get(RawConfig, "platforms", EmptyDict)
        lg == Get(RawConfig, "platform_specific", EmptyDict)
    IN  IF Has(ps, scope.s) THEN Get(ps, scope.s, None)
        ELSE IF Has(lg, scope.s) THEN Get(lg, scope.s, None)
        ELSE EmptyDict

OnlyActive(sections) == Dict(SelectSeq(sections.d, LAMBDA e : e.k = scope.s))

\* the file without what it holds for the other platforms
OtherPlatformsRemoved(raw) ==
    Dict([i \in 1..Len(raw.d) |->
            IF raw.d[i].k \in {"platforms", "platform_specific"}
            THEN Entry(raw.d[i].k, OnlyActive(raw.d[i].v))
            ELSE raw.d[i]])

\* C30: the merged configuration has a key platforms (platform_specific)
\* only when the section of the detected platform defines it, and then with
\* that section's value; the merged configuration is the one the file
\* without the other platforms' sections gives; and get('platforms', default)
\* returns the default unless the detected platform's section defines
\* platforms.
C30_NoPlatformsInMerged ==
    (pc \in {"done", "got"} /\ hres.merged # Absent) =>
        /\ \A k \in {"platforms", "platform_specific"} :
              IF Has(ActiveSection, k)
              THEN Get(hres.merged, k, None) = Get(ActiveSection, k, None)
              ELSE ~Has(hres.merged, k)
        /\ hres.merged = MergeAllConfigs(OtherPlatformsRemoved(RawConfig), scope, cfgB)
        /\ (pc = "got" /\ last.platform = Str("platforms") /\ ~Has(ActiveSection, "platforms"))
              => last.ret = last.config

\* on macOS, with a file that names the application L for linux, the
\* question get('platforms', {}) is answered {}
C30_Witness ==
    /\ pc = "got" /\ last.platform = Str("platforms") /\ last.config = EmptyDict
    /\ scope = Str("macos")
    /\ Get(Get(Get(RawConfig, "platforms", EmptyDict), "linux", EmptyDict), "name", None)
          = Str("L")
    /\ last.ret = EmptyDict

====
